---- MODULE Spec2Model ----
(***************************************************************************)
(* The tool-calling conversation loop of the example agents, and the       *)
(* smaller programs that stand beside it in the repository.                *)
(*                                                                         *)
(* Five wirings of the same loop are modelled, selected by `variant`:      *)
(*   "NewAgent"   the compiled graph of the scenario packages (soc,        *)
(*                supply_chain, ecommerce_customer_support, legal,         *)
(*                financial_services, healthcare, it_help_desk)            *)
(*   "toolsNode"  the compiled graph of the cancel_order example           *)
(*   "standard"   the two-call script of chapter05/go/standard             *)
(*   "inferTool"  the two-call script built on utils.InferTool             *)
(*   "multiAgent" the two-call script of chapter08/go/multi_agent          *)
(*                                                                         *)
(* A message content is a sequence of tokens, so that the prefix "Error:"  *)
(* written by fmt.Sprintf("Error: %v", err) can be tested.                 *)
(*                                                                         *)
(* Specifications:                                                         *)
(*   Spec           the loop, the model answering anything it may answer   *)
(*   SpecRoundTrip  the loop with the tool add and a scripted model        *)
(*   SpecTwo        two conversations on one compiled NewAgent graph       *)
(*   SpecCancel     the NewAgent graph under a ctx the caller may cancel   *)
(*   SpecRoute      routeQuery of the MCP tools example                    *)
(*   SpecMem        the stateless and the stateful context_window demos    *)
(*   SpecAc         the actor-critic loop of chapter08/go/multi_agent      *)
(*   SpecPo         the prompt-optimisation loop of the same file          *)
(*   SpecInsight    the InsightAgent and its three lists                   *)
(*   SpecRefl       updateMemory of the reflexion example                  *)
(*   SpecSupport    the support-routing graph, every entered node returns  *)
(*   SpecA2a        the A2A server's agentHandler                          *)
(*   SpecVoice      the two goroutines of the voice relay                  *)
(* The variables of the programs a specification does not run keep their   *)
(* idle values.                                                            *)
(***************************************************************************)
EXTENDS Integers, Sequences, FiniteSets, TLC

VARIABLES
    variant,      \* which program is running
    order,        \* state.Order / Incident / Patient / Account: the scenario context
    messages,     \* state.Messages (graphs) or messages / msgs (scripts)
    pc,           \* position of the run
    inputMsgs,    \* argument of the most recent chatModel.Generate call
    modelCalls,   \* number of chatModel.Generate calls made
    handlerRuns,  \* tool handlers executed so far, in order
    finalResp,    \* the answer printed by a script / the last message of a graph run
    err,          \* cause of a failed run
    states,       \* two conversations on one compiled agent: their state objects
    runs,         \* two conversations: where each Invoke stands
    cancelled,    \* the caller's ctx has been cancelled
    lateStarts,   \* handlers and model calls started after the cancellation
    query,        \* routeQuery: the query
    routed,       \* routeQuery: the tool it returned
    memPc,        \* context_window: position in main
    memoryStore,  \* context_window: memoryStore, thread id -> saved messages
    llmInput,     \* context_window: argument of the latest llm.Generate call
    printed,      \* context_window: the messages printed by printLastMessage
    turns,        \* context_window: the messages of the stateful turns completed, turn by turn
    acPc,         \* actor-critic: position in main
    iteration,    \* actor-critic: the loop counter
    evalResult,   \* actor-critic: the critic result of the current iteration
    executed,     \* actor-critic: the executeTool calls made, in order
    acCalls,      \* actor-critic: the chatModel.Generate calls made, in order
    poPc,         \* prompt optimisation: position in main
    gen,          \* prompt optimisation: the generation counter
    archive,      \* prompt optimisation: the archive of snapshots
    evaluated,    \* prompt optimisation: every fitness runEvaluation has returned, in order
    best,         \* prompt optimisation: the snapshot reported as best
    Insights,     \* InsightAgent.Insights
    PromotedInsights,\* InsightAgent.PromotedInsights
    DemotedInsights,\* InsightAgent.DemotedInsights
    generated,    \* InsightAgent: number of GenerateInsight calls that succeeded
    lastCall,     \* InsightAgent: the latest method call and its arguments
    envConfigs,   \* reflexion: the []*EnvConfig handed to updateMemory
    updates,      \* reflexion: number of updateMemory calls made
    umErr,        \* reflexion: what the latest updateMemory call returned
    queries,      \* reflexion: the reflection queries the latest call built
    supPc,        \* support graph: the node to run next, "END" or "failed"
    visited,      \* support graph: the nodes run so far, in order
    supState,     \* support graph: the *State handed from node to node
    a2aReq,       \* A2A server: the HTTP request being served
    a2aOut,       \* A2A server: what agentHandler wrote for it
    a2aServed,    \* A2A server: number of requests served
    c2oPc,        \* voice relay: where the client-to-OpenAI goroutine stands
    o2cPc,        \* voice relay: where the OpenAI-to-client goroutine stands
    lastAssistantItem,\* voice relay: handleVoice's lastAssistantItem
    mu,           \* voice relay: the goroutine holding mu, "" when it is free
    itemID,       \* voice relay: the local itemID of the speech_started case
    o2cMsg,       \* voice relay: the message the OpenAI-to-client goroutine is handling
    o2cLog,       \* voice relay: what the OpenAI-to-client goroutine has sent, in order
    writers,      \* voice relay: the goroutines inside a write on openaiWS
    evCount,      \* voice relay: messages read from openaiWS
    audCount      \* voice relay: messages read from clientWS

loopVars == <<variant, order, messages, pc, inputMsgs, modelCalls, handlerRuns, finalResp, err>>
twoVars == <<states, runs>>
cancelVars == <<cancelled, lateStarts>>
routeVars == <<query, routed>>

\* the value of the variables of a program that is not running
LoopIdle ==
    /\ variant = "none"
    /\ order = "none"
    /\ messages = <<>>
    /\ pc = "none"
    /\ inputMsgs = <<>>
    /\ modelCalls = 0
    /\ handlerRuns = <<>>
    /\ finalResp = <<>>
    /\ err = "none"

TwoIdle == states = <<>> /\ runs = <<>>

CancelIdle == cancelled = FALSE /\ lateStarts = <<>>

RouteIdle == query = <<>> /\ routed = "none"

(* The other programs of the repository *)

memVars == <<memPc, memoryStore, llmInput, printed, turns>>
acVars == <<acPc, iteration, evalResult, executed, acCalls>>
poVars == <<poPc, gen, archive, evaluated, best>>
insightVars == <<Insights, PromotedInsights, DemotedInsights, generated, lastCall>>
reflVars == <<envConfigs, updates, umErr, queries>>
supportVars == <<supPc, visited, supState>>
a2aVars == <<a2aReq, a2aOut, a2aServed>>
voiceVars == <<c2oPc, o2cPc, lastAssistantItem, mu, itemID, o2cMsg, o2cLog, writers, evCount, audCount>>

laterVars == <<memVars, acVars, poVars, insightVars, reflVars, supportVars, a2aVars, voiceVars>>

MemIdle ==
    /\ memPc = "none"
    /\ memoryStore = <<>>
    /\ llmInput = <<>>
    /\ printed = <<>>
    /\ turns = <<>>

AcIdle ==
    /\ acPc = "none"
    /\ iteration = 0
    /\ evalResult = <<>>
    /\ executed = <<>>
    /\ acCalls = <<>>

PoIdle ==
    /\ poPc = "none"
    /\ gen = 0
    /\ archive = <<>>
    /\ evaluated = <<>>
    /\ best = <<>>

InsightIdle ==
    /\ Insights = <<>>
    /\ PromotedInsights = <<>>
    /\ DemotedInsights = <<>>
    /\ generated = 0
    /\ lastCall = <<>>

ReflIdle ==
    /\ envConfigs = <<>>
    /\ updates = 0
    /\ umErr = "none"
    /\ queries = <<>>

SupportIdle ==
    /\ supPc = "none"
    /\ visited = <<>>
    /\ supState = <<>>

A2aIdle ==
    /\ a2aReq = <<>>
    /\ a2aOut = <<>>
    /\ a2aServed = 0

VoiceIdle ==
    /\ c2oPc = "none"
    /\ o2cPc = "none"
    /\ lastAssistantItem = ""
    /\ mu = ""
    /\ itemID = ""
    /\ o2cMsg = <<>>
    /\ o2cLog = <<>>
    /\ writers = {}
    /\ evCount = 0
    /\ audCount = 0

LaterIdle ==
    /\ MemIdle
    /\ AcIdle
    /\ PoIdle
    /\ InsightIdle
    /\ ReflIdle
    /\ SupportIdle
    /\ A2aIdle
    /\ VoiceIdle

\* every program but the simulated-memory demo is idle
MemAlone ==
    /\ LoopIdle
    /\ TwoIdle
    /\ CancelIdle
    /\ RouteIdle
    /\ AcIdle
    /\ PoIdle
    /\ InsightIdle
    /\ ReflIdle
    /\ SupportIdle
    /\ A2aIdle
    /\ VoiceIdle

\* every program but the actor-critic loop is idle
AcAlone ==
    /\ LoopIdle
    /\ TwoIdle
    /\ CancelIdle
    /\ RouteIdle
    /\ MemIdle
    /\ PoIdle
    /\ InsightIdle
    /\ ReflIdle
    /\ SupportIdle
    /\ A2aIdle
    /\ VoiceIdle

\* every program but the prompt-optimisation loop is idle
PoAlone ==
    /\ LoopIdle
    /\ TwoIdle
    /\ CancelIdle
    /\ RouteIdle
    /\ MemIdle
    /\ AcIdle
    /\ InsightIdle
    /\ ReflIdle
    /\ SupportIdle
    /\ A2aIdle
    /\ VoiceIdle

\* every program but the InsightAgent is idle
InsightAlone ==
    /\ LoopIdle
    /\ TwoIdle
    /\ CancelIdle
    /\ RouteIdle
    /\ MemIdle
    /\ AcIdle
    /\ PoIdle
    /\ ReflIdle
    /\ SupportIdle
    /\ A2aIdle
    /\ VoiceIdle

\* every program but the reflexion memory is idle
ReflAlone ==
    /\ LoopIdle
    /\ TwoIdle
    /\ CancelIdle
    /\ RouteIdle
    /\ MemIdle
    /\ AcIdle
    /\ PoIdle
    /\ InsightIdle
    /\ SupportIdle
    /\ A2aIdle
    /\ VoiceIdle

\* every program but the support-routing graph is idle
SupportAlone ==
    /\ LoopIdle
    /\ TwoIdle
    /\ CancelIdle
    /\ RouteIdle
    /\ MemIdle
    /\ AcIdle
    /\ PoIdle
    /\ InsightIdle
    /\ ReflIdle
    /\ A2aIdle
    /\ VoiceIdle

\* every program but the A2A server is idle
A2aAlone ==
    /\ LoopIdle
    /\ TwoIdle
    /\ CancelIdle
    /\ RouteIdle
    /\ MemIdle
    /\ AcIdle
    /\ PoIdle
    /\ InsightIdle
    /\ ReflIdle
    /\ SupportIdle
    /\ VoiceIdle

\* every program but the voice relay is idle
VoiceAlone ==
    /\ LoopIdle
    /\ TwoIdle
    /\ CancelIdle
    /\ RouteIdle
    /\ MemIdle
    /\ AcIdle
    /\ PoIdle
    /\ InsightIdle
    /\ ReflIdle
    /\ SupportIdle
    /\ A2aIdle

\* what a step of the simulated-memory demo never touches
outsideMem == <<loopVars, twoVars, cancelVars, routeVars, acVars, poVars, insightVars, reflVars, supportVars, a2aVars, voiceVars>>

\* what a step of the actor-critic loop never touches
outsideAc == <<loopVars, twoVars, cancelVars, routeVars, memVars, poVars, insightVars, reflVars, supportVars, a2aVars, voiceVars>>

\* what a step of the prompt-optimisation loop never touches
outsidePo == <<loopVars, twoVars, cancelVars, routeVars, memVars, acVars, insightVars, reflVars, supportVars, a2aVars, voiceVars>>

\* what a step of the InsightAgent never touches
outsideInsight == <<loopVars, twoVars, cancelVars, routeVars, memVars, acVars, poVars, reflVars, supportVars, a2aVars, voiceVars>>

\* what a step of the reflexion memory never touches
outsideRefl == <<loopVars, twoVars, cancelVars, routeVars, memVars, acVars, poVars, insightVars, supportVars, a2aVars, voiceVars>>

\* what a step of the support-routing graph never touches
outsideSupport == <<loopVars, twoVars, cancelVars, routeVars, memVars, acVars, poVars, insightVars, reflVars, a2aVars, voiceVars>>

\* what a step of the A2A server never touches
outsideA2a == <<loopVars, twoVars, cancelVars, routeVars, memVars, acVars, poVars, insightVars, reflVars, supportVars, voiceVars>>

\* what a step of the voice relay never touches
outsideVoice == <<loopVars, twoVars, cancelVars, routeVars, memVars, acVars, poVars, insightVars, reflVars, supportVars, a2aVars>>

-----------------------------------------------------------------------------
\* what a step of the conversation loop never touches
outsideLoop == <<twoVars, cancelVars, routeVars, laterVars>>

vars == <<loopVars, twoVars, cancelVars, routeVars, laterVars>>

-----------------------------------------------------------------------------
(* Bounds of the model *)

MaxToolCalls == 2    \* tool invocations in one Assistant message
MaxModelCalls == 3   \* chatModel.Generate calls in one graph run
MaxInvocations == 3  \* tool invocations over one run

-----------------------------------------------------------------------------
(* Data *)

GraphVariants == {"NewAgent", "toolsNode"}
ScriptVariants == {"standard", "inferTool", "multiAgent"}
Variants == GraphVariants \cup ScriptVariants

Orders == {"A12345", "B73973"}

\* Tool names the model can ask for: one that every program registers and
\* one that no program registers.
ToolNames == {"cancel_order", "bogus"}
ArgPayloads == {"valid", "malformed"}
HandlerOutcomes == {"ok", "err"}

Contents == {<<>>, <<"text">>}
NoResp == [role |-> "none", content |-> <<>>, toolCalls |-> <<>>, toolCallID |-> 0]

SystemMessage(o) ==
    [role |-> "system", content |-> <<"prompt", o>>, toolCalls |-> <<>>, toolCallID |-> 0]

UserMessage(c) ==
    [role |-> "user", content |-> c, toolCalls |-> <<>>, toolCallID |-> 0]

AssistantMessage(c, tcs) ==
    [role |-> "assistant", content |-> c, toolCalls |-> tcs, toolCallID |-> 0]

\* ToolMessage built without its ToolCallID field
ToolMessage_NoID(c, id) ==
    [role |-> "tool", content |-> c, toolCalls |-> <<>>, toolCallID |-> 0]

ToolMessage(c, id) ==
    [role |-> "tool", content |-> c, toolCalls |-> <<>>, toolCallID |-> id]

Last(s) == s[Len(s)]

\* number of tool invocations carried by the messages of a log
RECURSIVE Invocations(_)
Invocations(msgs) ==
    IF msgs = <<>> THEN 0
    ELSE Len(Last(msgs).toolCalls) + Invocations(SubSeq(msgs, 1, Len(msgs) - 1))

\* The tool invocations of one model response: the Model Invoker gives each
\* an id that is new in the conversation.
ToolCallSeqs(used) ==
    UNION { { [i \in 1..n |-> [id |-> used + i, name |-> f[i][1], args |-> f[i][2]]]
              : f \in [1..n -> ToolNames \X ArgPayloads] }
            : n \in 0..MaxToolCalls }

\* what chatModel.Generate may return on success
ModelResponses(used) ==
    { AssistantMessage(c, tcs) :
        c \in Contents,
        tcs \in { t \in ToolCallSeqs(used) : used + Len(t) <= MaxInvocations } }

-----------------------------------------------------------------------------
(* The per-invocation body of each tool loop.  A step yields the Tool      *)
(* messages it appends, the handler executions it performs and how the     *)
(* loop goes on: "next" (following invocation), "error" (the node returns  *)
(* an error) or "panic" (the process dies).                                *)

Out(m, r, s) == [msgs |-> m, runs |-> r, stop |-> s]

\* one execution of a handler: the invocation, the arguments it was given
\* ("parsed" from the payload, or the "zero" value) and what it returned
Run(tc, a, o) == [id |-> tc.id, name |-> tc.name, args |-> a, outcome |-> o]

\* json.Unmarshal of the arguments payload into the argument struct: on a
\* payload that does not parse it reports an error and leaves the zero value.
Unmarshal(payload) ==
    IF payload = "valid" THEN [ok |-> TRUE, args |-> "parsed"]
    ELSE [ok |-> FALSE, args |-> "zero"]

\* fmt.Sprintf("Error: %v", err)
ErrorContent(e) == <<"Error:", e>>

\* the string a handler returns when it succeeds
ResultContent(name) == <<"result", name>>

\* toolHandlers / toolMap: the names a program has a handler for
toolHandlers == {"cancel_order"}

\* NewAgent.toolExecutor, one iteration of `for _, tc := range lastMsg.ToolCalls`
toolExecutorStep(tc, outcome) ==
    IF tc.name \notin toolHandlers
    THEN Out(<<>>, <<>>, "next")                      \* log.Printf; continue
    ELSE LET a == Unmarshal(tc.args).args             \* _ = json.Unmarshal(...)
             resultStr == IF outcome = "err"
                          THEN ErrorContent("handler failed")
                          ELSE ResultContent(tc.name)
         IN Out(<<ToolMessage(resultStr, tc.id)>>, <<Run(tc, a, outcome)>>, "next")

\* toolsNode of the cancel_order graph, one iteration
toolsNodeStep(tc, outcome) ==
    IF tc.name = "cancel_order"
    THEN LET u == Unmarshal(tc.args)
         IN IF ~u.ok
            THEN Out(<<>>, <<>>, "error")             \* return nil, fmt.Errorf(...)
            ELSE Out(<<ToolMessage(ResultContent(tc.name), tc.id)>>,
                     <<Run(tc, u.args, "ok")>>, "next")
    ELSE Out(<<>>, <<>>, "next")

\* tool.InvokableTool.InvokableRun of a tool made by utils.InferTool: it
\* unmarshals the payload itself and runs the function only when that worked.
InvokableRun(tc, outcome) ==
    LET u == Unmarshal(tc.args)
    IN IF ~u.ok THEN [result |-> <<>>, err |-> "bad arguments", runs |-> <<>>]
       ELSE IF outcome = "err"
            THEN [result |-> <<>>, err |-> "handler failed",
                  runs |-> <<Run(tc, u.args, outcome)>>]
            ELSE [result |-> ResultContent(tc.name), err |-> "",
                  runs |-> <<Run(tc, u.args, outcome)>>]

\* chapter05 standard script, one iteration of the tool loop
standardStep(tc, outcome) ==
    IF tc.name \notin toolHandlers
    THEN Out(<<>>, <<>>, "next")                      \* log.Printf; continue
    ELSE LET r == InvokableRun(tc, outcome)
             result == IF r.err # "" THEN ErrorContent(r.err) ELSE r.result
         IN Out(<<ToolMessage(result, tc.id)>>, r.runs, "next")

\* InferTool script, one iteration: the map lookup is not checked and the
\* error of InvokableRun is discarded (result, _ := ...)
inferToolStep(tc, outcome) ==
    IF tc.name \notin toolHandlers
    THEN Out(<<>>, <<>>, "panic")                     \* method call on a nil interface
    ELSE LET r == InvokableRun(tc, outcome)
         IN Out(<<ToolMessage(r.result, tc.id)>>, r.runs, "next")

\* executeTool of the multi_agent script: a canned string per known name
executeTool(name) ==
    IF name \in toolHandlers THEN ResultContent(name) ELSE <<"unknown_tool_result">>

\* multi_agent script, one iteration: a parse failure is logged and
\* executeTool is called all the same
multiAgentStep(tc, outcome) ==
    LET a == Unmarshal(tc.args).args
    IN Out(<<ToolMessage(executeTool(tc.name), tc.id)>>, <<Run(tc, a, "ok")>>, "next")

ToolStep(v, tc, outcome) ==
    CASE v = "NewAgent" -> toolExecutorStep(tc, outcome)
      [] v = "toolsNode" -> toolsNodeStep(tc, outcome)
      [] v = "standard" -> standardStep(tc, outcome)
      [] v = "inferTool" -> inferToolStep(tc, outcome)
      [] v = "multiAgent" -> multiAgentStep(tc, outcome)

\* `for _, tc := range calls`: the steps in order, until one stops the loop
RECURSIVE ToolLoop(_, _, _, _, _)
ToolLoop(v, calls, outcomes, i, acc) ==
    IF i > Len(calls) THEN acc
    ELSE LET s == ToolStep(v, calls[i], outcomes[i])
             acc2 == Out(acc.msgs \o s.msgs, acc.runs \o s.runs, s.stop)
         IN IF s.stop # "next" THEN acc2
            ELSE ToolLoop(v, calls, outcomes, i + 1, acc2)

RunToolCalls(v, calls, outcomes) == ToolLoop(v, calls, outcomes, 1, Out(<<>>, <<>>, "next"))

\* shouldCallTool with content given precedence over tool calls
shouldCallTool_ContentFirst(msgs) ==
    IF Last(msgs).content # <<>> THEN "END"
    ELSE IF Len(Last(msgs).toolCalls) > 0 THEN "tools" ELSE "END"

\* shouldCallTool that never ends the run
shouldCallTool_Always(msgs) == "tools"

\* the branch after the assistant node
shouldCallTool(msgs) ==
    IF Len(Last(msgs).toolCalls) > 0 THEN "tools" ELSE "END"

-----------------------------------------------------------------------------
(* Initial state: the caller's state object, before Invoke / the first call *)

InitialMessages(v) ==
    IF v = "multiAgent"
    THEN <<SystemMessage("OP-12345"), UserMessage(<<"question">>)>>
    ELSE <<UserMessage(<<"question">>)>>

Init ==
    /\ variant \in Variants
    /\ order \in (IF variant \in GraphVariants THEN Orders ELSE {"OP-12345"})
    /\ messages = InitialMessages(variant)
    /\ pc = "assistant"
    /\ inputMsgs = <<>>
    /\ modelCalls = 0
    /\ handlerRuns = <<>>
    /\ finalResp = NoResp
    /\ err = "none"
    /\ TwoIdle
    /\ CancelIdle
    /\ RouteIdle
    /\ LaterIdle

-----------------------------------------------------------------------------
(* The compiled graphs: START -> assistant -> branch -> tools -> assistant *)

\* AssistantInput that leaves the Tool messages out of the history
AssistantInput_DropsTools(o, msgs) ==
    <<SystemMessage(o)>> \o SelectSeq(msgs, LAMBDA m : m.role # "tool")

\* the input the assistant node builds: the system prompt, then the history
AssistantInput(o, msgs) == <<SystemMessage(o)>> \o msgs

\* AssistantOk keeping a sliding window of the history: the oldest message
\* is dropped when the response is appended
AssistantOk_Window ==
    /\ variant \in GraphVariants
    /\ pc = "assistant"
    /\ modelCalls < MaxModelCalls
    /\ \E resp \in ModelResponses(Invocations(messages)) :
          messages' = Append(Tail(messages), resp)
    /\ inputMsgs' = AssistantInput(order, messages)
    /\ modelCalls' = modelCalls + 1
    /\ pc' = "branch"
    /\ UNCHANGED <<variant, order, handlerRuns, finalResp, err>>
    /\ UNCHANGED outsideLoop

\* assistant node, chatModel.Generate succeeds
AssistantOk ==
    /\ variant \in GraphVariants
    /\ pc = "assistant"
    /\ modelCalls < MaxModelCalls
    /\ \E resp \in ModelResponses(Invocations(messages)) :
          messages' = Append(messages, resp)
    /\ inputMsgs' = AssistantInput(order, messages)
    /\ modelCalls' = modelCalls + 1
    /\ pc' = "branch"
    /\ UNCHANGED <<variant, order, handlerRuns, finalResp, err>>
    /\ UNCHANGED outsideLoop

\* AssistantErr with the error swallowed: the node is entered again
AssistantErr_Retry ==
    /\ variant \in GraphVariants
    /\ pc = "assistant"
    /\ modelCalls < MaxModelCalls
    /\ inputMsgs' = AssistantInput(order, messages)
    /\ modelCalls' = modelCalls + 1
    /\ pc' = "assistant"
    /\ err' = "model"
    /\ UNCHANGED <<variant, order, messages, handlerRuns, finalResp>>
    /\ UNCHANGED outsideLoop

\* assistant node, chatModel.Generate fails: return nil, err; Invoke returns
\* the error and main exits
AssistantErr ==
    /\ variant \in GraphVariants
    /\ pc = "assistant"
    /\ modelCalls < MaxModelCalls
    /\ inputMsgs' = AssistantInput(order, messages)
    /\ modelCalls' = modelCalls + 1
    /\ pc' = "failed"
    /\ err' = "model"
    /\ UNCHANGED <<variant, order, messages, handlerRuns, finalResp>>
    /\ UNCHANGED outsideLoop

\* the branch: to the tools node, or END (Invoke returns the state)
Branch ==
    /\ variant \in GraphVariants
    /\ pc = "branch"
    /\ IF shouldCallTool(messages) = "tools"
       THEN pc' = "tools" /\ UNCHANGED finalResp
       ELSE pc' = "done" /\ finalResp' = Last(messages)
    /\ UNCHANGED <<variant, order, messages, inputMsgs, modelCalls, handlerRuns, err>>
    /\ UNCHANGED outsideLoop

\* ToolExecutor with handlers that write their effect into the context
ToolExecutor_UpdatesOrder ==
    /\ variant = "NewAgent"
    /\ pc = "tools"
    /\ LET calls == Last(messages).toolCalls
       IN \E outcomes \in [1..Len(calls) -> HandlerOutcomes] :
             LET r == IF Len(calls) = 0 THEN Out(<<>>, <<>>, "next")
                      ELSE RunToolCalls(variant, calls, outcomes)
             IN /\ messages' = messages \o r.msgs
                /\ handlerRuns' = handlerRuns \o r.runs
                /\ order' = IF r.runs # <<>> THEN "updated" ELSE order
    /\ pc' = "assistant"
    /\ UNCHANGED <<variant, inputMsgs, modelCalls, finalResp, err>>
    /\ UNCHANGED outsideLoop

\* tools node of NewAgent, then the edge tools -> assistant
ToolExecutor ==
    /\ variant = "NewAgent"
    /\ pc = "tools"
    /\ LET calls == Last(messages).toolCalls
       IN \E outcomes \in [1..Len(calls) -> HandlerOutcomes] :
             LET r == IF Len(calls) = 0 THEN Out(<<>>, <<>>, "next")
                      ELSE RunToolCalls(variant, calls, outcomes)
             IN /\ messages' = messages \o r.msgs
                /\ handlerRuns' = handlerRuns \o r.runs
    /\ pc' = "assistant"
    /\ UNCHANGED <<variant, order, inputMsgs, modelCalls, finalResp, err>>
    /\ UNCHANGED outsideLoop

\* tools node of the cancel_order graph: a parse failure makes the node, and
\* with it Invoke, return an error; state.Messages keeps what was appended
ToolsNode ==
    /\ variant = "toolsNode"
    /\ pc = "tools"
    /\ LET calls == Last(messages).toolCalls
       IN \E outcomes \in [1..Len(calls) -> HandlerOutcomes] :
             LET r == IF Len(calls) = 0 THEN Out(<<>>, <<>>, "next")
                      ELSE RunToolCalls(variant, calls, outcomes)
             IN /\ messages' = messages \o r.msgs
                /\ handlerRuns' = handlerRuns \o r.runs
                /\ IF r.stop = "error"
                   THEN pc' = "failed" /\ err' = "parse"
                   ELSE pc' = "assistant" /\ UNCHANGED err
    /\ UNCHANGED <<variant, order, inputMsgs, modelCalls, finalResp>>
    /\ UNCHANGED outsideLoop

-----------------------------------------------------------------------------
(* The two-call scripts: Generate, one tool loop, Generate, print *)

\* first model.Generate call of a script fails: log.Fatal
FirstCallErr ==
    /\ variant \in ScriptVariants
    /\ pc = "assistant"
    /\ inputMsgs' = messages
    /\ modelCalls' = modelCalls + 1
    /\ pc' = "failed"
    /\ err' = "model"
    /\ UNCHANGED <<variant, order, messages, handlerRuns, finalResp>>
    /\ UNCHANGED outsideLoop

\* chapter05 standard: the response is appended; tool calls decide the branch
StandardFirstCall ==
    /\ variant = "standard"
    /\ pc = "assistant"
    /\ \E resp \in ModelResponses(Invocations(messages)) :
          /\ messages' = Append(messages, resp)
          /\ IF Len(resp.toolCalls) > 0
             THEN pc' = "tools" /\ UNCHANGED finalResp
             ELSE pc' = "done" /\ finalResp' = resp
    /\ inputMsgs' = messages
    /\ modelCalls' = modelCalls + 1
    /\ UNCHANGED <<variant, order, handlerRuns, err>>
    /\ UNCHANGED outsideLoop

\* InferTool script: the response is appended and the tool loop follows in
\* every case
InferToolFirstCall ==
    /\ variant = "inferTool"
    /\ pc = "assistant"
    /\ \E resp \in ModelResponses(Invocations(messages)) :
          messages' = Append(messages, resp)
    /\ pc' = "tools"
    /\ inputMsgs' = messages
    /\ modelCalls' = modelCalls + 1
    /\ UNCHANGED <<variant, order, handlerRuns, finalResp, err>>
    /\ UNCHANGED outsideLoop

\* multi_agent script: the response is appended only when it has tool calls
MultiAgentFirstCall ==
    /\ variant = "multiAgent"
    /\ pc = "assistant"
    /\ \E resp \in ModelResponses(Invocations(messages)) :
          IF Len(resp.toolCalls) > 0
          THEN /\ messages' = Append(messages, AssistantMessage(resp.content, resp.toolCalls))
               /\ pc' = "tools"
               /\ UNCHANGED finalResp
          ELSE /\ pc' = "done"
               /\ finalResp' = resp
               /\ UNCHANGED messages
    /\ inputMsgs' = messages
    /\ modelCalls' = modelCalls + 1
    /\ UNCHANGED <<variant, order, handlerRuns, err>>
    /\ UNCHANGED outsideLoop

\* the tool loop of a script; a panic ends the process
ScriptTools ==
    /\ variant \in ScriptVariants
    /\ pc = "tools"
    /\ LET calls == Last(messages).toolCalls
       IN \E outcomes \in [1..Len(calls) -> HandlerOutcomes] :
             LET r == RunToolCalls(variant, calls, outcomes)
             IN /\ messages' = messages \o r.msgs
                /\ handlerRuns' = handlerRuns \o r.runs
                /\ IF r.stop = "panic"
                   THEN pc' = "failed" /\ err' = "panic"
                   ELSE pc' = "final" /\ UNCHANGED err
    /\ UNCHANGED <<variant, order, inputMsgs, modelCalls, finalResp>>
    /\ UNCHANGED outsideLoop

\* FinalCallOk turned into a loop: a response with tool calls is appended
\* and sent to the tool loop again
FinalCallOk_Loops ==
    /\ variant \in ScriptVariants
    /\ pc = "final"
    /\ \E resp \in ModelResponses(Invocations(messages)) :
          IF resp.toolCalls # <<>>
          THEN /\ messages' = Append(messages, resp)
               /\ pc' = "tools"
               /\ UNCHANGED finalResp
          ELSE /\ finalResp' = resp
               /\ pc' = "done"
               /\ UNCHANGED messages
    /\ inputMsgs' = messages
    /\ modelCalls' = modelCalls + 1
    /\ UNCHANGED <<variant, order, handlerRuns, err>>
    /\ UNCHANGED outsideLoop

\* second model.Generate call succeeds: its content is printed; the
\* response is not appended and its tool calls are not looked at
FinalCallOk ==
    /\ variant \in ScriptVariants
    /\ pc = "final"
    /\ \E resp \in ModelResponses(Invocations(messages)) :
          finalResp' = resp
    /\ inputMsgs' = messages
    /\ modelCalls' = modelCalls + 1
    /\ pc' = "done"
    /\ UNCHANGED <<variant, order, messages, handlerRuns, err>>
    /\ UNCHANGED outsideLoop

\* second model.Generate call fails: log.Fatalf in standard and multi_agent;
\* the InferTool script discards the error (final, _ := ...) and then
\* dereferences the nil response
FinalCallErr ==
    /\ variant \in ScriptVariants
    /\ pc = "final"
    /\ inputMsgs' = messages
    /\ modelCalls' = modelCalls + 1
    /\ pc' = "failed"
    /\ err' = IF variant = "inferTool" THEN "panic" ELSE "model"
    /\ UNCHANGED <<variant, order, messages, handlerRuns, finalResp>>
    /\ UNCHANGED outsideLoop

-----------------------------------------------------------------------------

Next ==
    \/ AssistantOk
    \/ AssistantErr
    \/ Branch
    \/ ToolExecutor
    \/ ToolsNode
    \/ FirstCallErr
    \/ StandardFirstCall
    \/ InferToolFirstCall
    \/ MultiAgentFirstCall
    \/ ScriptTools
    \/ FinalCallOk
    \/ FinalCallErr

Spec == Init /\ [][Next]_vars

-----------------------------------------------------------------------------
(* Vocabulary of the properties *)

\* index of the last Assistant message of a log, 0 when it has none
RECURSIVE LastAssistant(_)
LastAssistant(msgs) ==
    IF msgs = <<>> THEN 0
    ELSE IF Last(msgs).role = "assistant" THEN Len(msgs)
    ELSE LastAssistant(SubSeq(msgs, 1, Len(msgs) - 1))

\* the Assistant message that triggered the current round
Triggering == messages[LastAssistant(messages)]

\* the messages appended after the triggering Assistant message
Trailing == SubSeq(messages, LastAssistant(messages) + 1, Len(messages))

\* a tool-execution pass over the triggering message is over: it ran to its
\* end, or it was cut short
AfterToolPass ==
    /\ pc \notin {"branch", "tools"}
    /\ LastAssistant(messages) > 0
    /\ Triggering.toolCalls # <<>>

\* the pass ran to its end and control is back at the model call
PassComplete == AfterToolPass /\ pc \in {"assistant", "final"}

StartsWithError(c) == Len(c) > 0 /\ c[1] = "Error:"

\* the log holds a Tool message answering invocation `id`
Answered(id) == \E k \in 1..Len(messages) :
                    messages[k].role = "tool" /\ messages[k].toolCallID = id

-----------------------------------------------------------------------------
(* C1: in every round the tool pass appends exactly one Tool message per   *)
(* invocation of the triggering Assistant message, in invocation order,    *)
(* the i-th carrying the id of the i-th invocation, also when some of the  *)
(* requested names are not registered.  (NewAgent.toolExecutor and the     *)
(* chapter05 standard loop.)                                               *)
C1_OneToolMessagePerInvocation ==
    (variant \in {"NewAgent", "standard"} /\ AfterToolPass) =>
        /\ Len(Trailing) = Len(Triggering.toolCalls)
        /\ \A i \in 1..Len(Trailing) :
              /\ Trailing[i].role = "tool"
              /\ Trailing[i].toolCallID = Triggering.toolCalls[i].id

(* C2: a request for a name that is not registered does not crash the run; *)
(* the pass appends a Tool message for that invocation whose content       *)
(* starts with "Error:" and control goes back to the model call.           *)
C2_UnregisteredToolYieldsErrorMessage ==
    (variant \in {"NewAgent", "standard", "inferTool"} /\ AfterToolPass) =>
        \A i \in 1..Len(Triggering.toolCalls) :
            Triggering.toolCalls[i].name \notin toolHandlers =>
                /\ err # "panic"
                /\ \E k \in 1..Len(Trailing) :
                      /\ Trailing[k].role = "tool"
                      /\ Trailing[k].toolCallID = Triggering.toolCalls[i].id
                      /\ StartsWithError(Trailing[k].content)

(* C3: when a resolved handler returns an error, the log gets a Tool       *)
(* message "Error: <message>" for that invocation, and the pass goes on    *)
(* with the remaining invocations: once it is over every invocation of a   *)
(* registered tool of the round is answered.                               *)
C3_HandlerErrorBecomesErrorMessage ==
    variant \in {"NewAgent", "standard", "inferTool"} =>
        /\ \A r \in 1..Len(handlerRuns) :
              handlerRuns[r].outcome = "err" =>
                  \E k \in 1..Len(messages) :
                      /\ messages[k].role = "tool"
                      /\ messages[k].toolCallID = handlerRuns[r].id
                      /\ messages[k].content = ErrorContent("handler failed")
        /\ PassComplete =>
              \A i \in 1..Len(Triggering.toolCalls) :
                  Triggering.toolCalls[i].name \in toolHandlers =>
                      Answered(Triggering.toolCalls[i].id)

(* C4: when the arguments payload of an invocation does not deserialize,   *)
(* no handler is run on made-up (zero-value) arguments, the run does not   *)
(* fail because of it, and the invocation is answered by a Tool message    *)
(* holding an error description.                                           *)
C4_BadArgumentsBecomeErrorMessage ==
    variant \in {"toolsNode", "NewAgent", "multiAgent"} =>
        /\ \A r \in 1..Len(handlerRuns) : handlerRuns[r].args # "zero"
        /\ err # "parse"
        /\ AfterToolPass =>
              \A i \in 1..Len(Triggering.toolCalls) :
                  (/\ Triggering.toolCalls[i].name \in toolHandlers
                   /\ ~Unmarshal(Triggering.toolCalls[i].args).ok) =>
                      \E k \in 1..Len(Trailing) :
                          /\ Trailing[k].role = "tool"
                          /\ Trailing[k].toolCallID = Triggering.toolCalls[i].id
                          /\ StartsWithError(Trailing[k].content)

-----------------------------------------------------------------------------
\* one step of a graph run, seen from a failure of chatModel.Generate
ModelFailureIsFinal ==
    variant \in GraphVariants =>
        /\ (err' = "model" =>
               /\ pc' = "failed"
               /\ inputMsgs' = AssistantInput(order', messages'))
        /\ (err = "model" =>
               /\ pc' = "failed"
               /\ modelCalls' = modelCalls
               /\ handlerRuns' = handlerRuns
               /\ messages' = messages)

(* C5: when chatModel.Generate fails in a round of a graph run, the run    *)
(* is FAILED with the model's error, and from then on no model call is     *)
(* made and no tool handler is executed.                                   *)
C5_ModelFailureEndsRun == [][ModelFailureIsFinal]_vars

\* a graph run that failed at a model call of a later round, after a
\* handler had been executed
C5_Witness ==
    /\ variant \in GraphVariants
    /\ pc = "failed"
    /\ err = "model"
    /\ modelCalls >= 2
    /\ handlerRuns # <<>>

-----------------------------------------------------------------------------
\* the two shapes the Model Invoker contract leaves out
BothPopulated(m) == m.role = "assistant" /\ m.content # <<>> /\ m.toolCalls # <<>>
BothEmpty(m) == m.role = "assistant" /\ m.content = <<>> /\ m.toolCalls = <<>>

-----------------------------------------------------------------------------
\* one step of a graph run around the branch after the assistant node
AppendThenBranch ==
    variant \in GraphVariants =>
        /\ (pc = "assistant" /\ pc' = "branch") =>
               /\ Len(messages') = Len(messages) + 1
               /\ SubSeq(messages', 1, Len(messages)) = messages
               /\ Last(messages').role = "assistant"
        /\ pc = "branch" =>
               /\ Last(messages).role = "assistant"
               /\ messages' = messages
               /\ pc' \in {"tools", "done"}
               /\ (pc' = "tools" <=> Len(Last(messages).toolCalls) >= 1)
        /\ pc' = "done" =>
               /\ Last(messages').role = "assistant"
               /\ Last(messages').toolCalls = <<>>
               /\ finalResp' = Last(messages')

(* C7: in a graph run every successful model call appends the returned     *)
(* Assistant message to the log before the branch is taken; the branch     *)
(* goes to the tools node if and only if that message has at least one     *)
(* tool invocation, and otherwise the run is DONE with that Assistant      *)
(* message as the last message of the log.                                 *)
C7_AppendThenBranchOnToolCalls == [][AppendThenBranch]_vars

\* a graph run that took the branch to the tools node in one round and the
\* branch to END in a later one
C7_Witness ==
    /\ variant \in GraphVariants
    /\ pc = "done"
    /\ modelCalls >= 2
    /\ Last(messages).role = "assistant"
    /\ \E i \in 1..Len(messages) - 1 :
          messages[i].role = "assistant" /\ messages[i].toolCalls # <<>>

-----------------------------------------------------------------------------
\* one step of a graph run out of the tools node
ToolsThenAssistant ==
    (variant \in GraphVariants /\ pc = "tools") => pc' = "assistant"

(* C8: every tools pass of a graph run is followed by the model call: the  *)
(* step that leaves the tools node always goes to the assistant node,      *)
(* whatever the tool names, arguments and handler outcomes were.           *)
C8_ToolPassReturnsToModel == [][ToolsThenAssistant]_vars

-----------------------------------------------------------------------------
\* one step of a script around its second model call
SecondResponseIsFinal ==
    variant \in ScriptVariants =>
        /\ (pc = "final" /\ err' = err) =>
               /\ pc' = "done"
               /\ finalResp'.role = "assistant"
               /\ handlerRuns' = handlerRuns
               /\ messages' = messages
        /\ pc' = "done" =>
               /\ err' = "none"
               /\ modelCalls' <= 2
               /\ finalResp'.role = "assistant"
               /\ modelCalls' = 2 =>
                     \A j \in 1..Len(finalResp'.toolCalls) :
                         /\ \A r \in 1..Len(handlerRuns') :
                               handlerRuns'[r].id # finalResp'.toolCalls[j].id
                         /\ \A k \in 1..Len(messages') :
                               messages'[k].toolCallID # finalResp'.toolCalls[j].id

(* C10: in the two-call scripts (a budget of one tool round) the second    *)
(* model response ends the run in DONE, not FAILED, its content is the     *)
(* answer, and the tool invocations it carries are never executed: no      *)
(* handler runs for them and no Tool message answers them.                 *)
C10_SecondResponseIsFinalAnswer == [][SecondResponseIsFinal]_vars

\* a script run that executed a handler in its tool round and whose second
\* response carried tool invocations of its own
C10_Witness ==
    /\ variant \in ScriptVariants
    /\ pc = "done"
    /\ modelCalls = 2
    /\ handlerRuns # <<>>
    /\ finalResp.toolCalls # <<>>

-----------------------------------------------------------------------------
\* index of the nearest Assistant message before position k of the log
AssistantBefore(k) == LastAssistant(SubSeq(messages, 1, k))

C12_EachInvocationRunsOnce ==
    variant \in GraphVariants =>
        /\ \A i, j \in 1..Len(handlerRuns) :
              handlerRuns[i].id = handlerRuns[j].id => i = j
        /\ \A k \in 1..Len(messages) :
              (k < LastAssistant(messages) \/ pc \notin {"branch", "tools"}) =>
                  \A i \in 1..Len(messages[k].toolCalls) :
                      \E r \in 1..Len(handlerRuns) :
                          handlerRuns[r].id = messages[k].toolCalls[i].id

-----------------------------------------------------------------------------
(* The round trip: one question "add x y", a registry holding the tool     *)
(* add, and a scripted model in place of chatModel.  It runs on the        *)
(* NewAgent graph and on the InferTool script.                             *)

MaxArg == 3   \* largest operand of the question

RoundTripVariants == {"NewAgent", "inferTool"}

\* add of the InferTool script: fmt.Sprintf("%v", args.X+args.Y), nil
add_Multiply(a) == <<ToString(a.x * a.y)>>

add(a) == <<ToString(a.x + a.y)>>

\* the operands of the question that opens a log
Operands(msgs) == [x |-> msgs[1].content[2], y |-> msgs[1].content[3]]

\* the content the scripted model waits for
Sum(msgs) == <<ToString(Operands(msgs).x + Operands(msgs).y)>>

\* The scripted model: it asks for add(x, y) until its input holds a Tool
\* message whose content is the sum, and then answers with the sum.
ScriptedModel(input) ==
    LET history == SelectSeq(input, LAMBDA m : m.role # "system")
    IN IF \E k \in 1..Len(history) :
              history[k].role = "tool" /\ history[k].content = Sum(history)
       THEN AssistantMessage(Sum(history), <<>>)
       ELSE AssistantMessage(<<>>, <<[id |-> Invocations(history) + 1,
                                      name |-> "add",
                                      args |-> Operands(history)]>>)

RoundTripInit ==
    /\ variant \in RoundTripVariants
    /\ order \in (IF variant \in GraphVariants THEN Orders ELSE {"OP-12345"})
    /\ \E x, y \in 0..MaxArg : messages = <<UserMessage(<<"add", x, y>>)>>
    /\ pc = "assistant"
    /\ inputMsgs = <<>>
    /\ modelCalls = 0
    /\ handlerRuns = <<>>
    /\ finalResp = NoResp
    /\ err = "none"
    /\ TwoIdle
    /\ CancelIdle
    /\ RouteIdle
    /\ LaterIdle

\* assistant node of the graph, the scripted model answering
ScriptedAssistant ==
    /\ variant \in GraphVariants
    /\ pc = "assistant"
    /\ modelCalls < MaxModelCalls
    /\ messages' = Append(messages, ScriptedModel(AssistantInput(order, messages)))
    /\ inputMsgs' = AssistantInput(order, messages)
    /\ modelCalls' = modelCalls + 1
    /\ pc' = "branch"
    /\ UNCHANGED <<variant, order, handlerRuns, finalResp, err>>
    /\ UNCHANGED outsideLoop

\* one iteration of a tool loop on an invocation of add whose payload
\* parses: the handler result becomes a Tool message with the invocation id
addStep(tc) == Out(<<ToolMessage(add(tc.args), tc.id)>>, <<Run(tc, tc.args, "ok")>>, "next")

RECURSIVE addLoop(_, _, _)
addLoop(calls, i, acc) ==
    IF i > Len(calls) THEN acc
    ELSE LET s == addStep(calls[i])
         IN addLoop(calls, i + 1, Out(acc.msgs \o s.msgs, acc.runs \o s.runs, s.stop))

\* tools node of NewAgent on the round-trip registry, then tools -> assistant
AddToolExecutor ==
    /\ variant = "NewAgent"
    /\ pc = "tools"
    /\ LET r == addLoop(Last(messages).toolCalls, 1, Out(<<>>, <<>>, "next"))
       IN /\ messages' = messages \o r.msgs
          /\ handlerRuns' = handlerRuns \o r.runs
    /\ pc' = "assistant"
    /\ UNCHANGED <<variant, order, inputMsgs, modelCalls, finalResp, err>>
    /\ UNCHANGED outsideLoop

\* InferTool script, first model.Generate, the scripted model answering
ScriptedFirstCall ==
    /\ variant = "inferTool"
    /\ pc = "assistant"
    /\ messages' = Append(messages, ScriptedModel(messages))
    /\ pc' = "tools"
    /\ inputMsgs' = messages
    /\ modelCalls' = modelCalls + 1
    /\ UNCHANGED <<variant, order, handlerRuns, finalResp, err>>
    /\ UNCHANGED outsideLoop

\* InferTool script, the tool loop on the round-trip registry
AddScriptTools ==
    /\ variant = "inferTool"
    /\ pc = "tools"
    /\ LET r == addLoop(Last(messages).toolCalls, 1, Out(<<>>, <<>>, "next"))
       IN /\ messages' = messages \o r.msgs
          /\ handlerRuns' = handlerRuns \o r.runs
    /\ pc' = "final"
    /\ UNCHANGED <<variant, order, inputMsgs, modelCalls, finalResp, err>>
    /\ UNCHANGED outsideLoop

\* InferTool script, second model.Generate: the content is printed
ScriptedFinalCall ==
    /\ variant = "inferTool"
    /\ pc = "final"
    /\ finalResp' = ScriptedModel(messages)
    /\ inputMsgs' = messages
    /\ modelCalls' = modelCalls + 1
    /\ pc' = "done"
    /\ UNCHANGED <<variant, order, messages, handlerRuns, err>>
    /\ UNCHANGED outsideLoop

RoundTripNext ==
    \/ ScriptedAssistant
    \/ Branch
    \/ AddToolExecutor
    \/ ScriptedFirstCall
    \/ AddScriptTools
    \/ ScriptedFinalCall

SpecRoundTrip == RoundTripInit /\ [][RoundTripNext]_vars

\* the roles of a log, in order
Roles(msgs) == [k \in 1..Len(msgs) |-> msgs[k].role]

-----------------------------------------------------------------------------
(* Two conversations on one compiled agent.  The nodes are closures over   *)
(* chatModel and toolHandlers, which they only read; the state object is   *)
(* the argument of Invoke.  `states[c]` is the state object caller c built *)
(* and `runs[c]` is the Invoke call of caller c: its position, the input   *)
(* of its latest model call and the messages its nodes have appended.      *)

Conversations == {1, 2}

\* initialState and evalState of the cancel_order example
CallerState(c) ==
    IF c = 1
    THEN [order |-> "A12345", messages |-> <<UserMessage(<<"question", "A12345">>)>>]
    ELSE [order |-> "B73973", messages |-> <<UserMessage(<<"question", "B73973">>)>>]

\* every node of one Invoke with one state object for all callers
stateOf_Shared(c) == 1

\* the state object the nodes of Invoke c receive: the one its caller passed
stateOf(c) == c

\* what chatModel.Generate may return on success in this specification
TwoResponses(used) ==
    { AssistantMessage(<<"text">>, <<>>),
      AssistantMessage(<<>>, <<[id |-> used + 1, name |-> "cancel_order", args |-> "valid"]>>),
      AssistantMessage(<<"text">>, <<[id |-> used + 1, name |-> "bogus", args |-> "malformed"]>>) }

TwoInit ==
    /\ states = [c \in Conversations |-> CallerState(c)]
    /\ runs = [c \in Conversations |->
                  [pc |-> "assistant", input |-> <<>>, calls |-> 0, appended |-> <<>>]]
    /\ LoopIdle
    /\ CancelIdle
    /\ RouteIdle
    /\ LaterIdle

\* assistant node of Invoke c, chatModel.Generate succeeds
TwoAssistantOk(c) ==
    /\ runs[c].pc = "assistant"
    /\ runs[c].calls < MaxModelCalls
    /\ LET st == states[stateOf(c)]
       IN \E resp \in TwoResponses(Invocations(st.messages)) :
             /\ states' = [states EXCEPT ![stateOf(c)].messages = Append(@, resp)]
             /\ runs' = [runs EXCEPT ![c] = [pc |-> "branch",
                                             input |-> AssistantInput(st.order, st.messages),
                                             calls |-> @.calls + 1,
                                             appended |-> Append(@.appended, resp)]]
    /\ UNCHANGED <<loopVars, cancelVars, routeVars, laterVars>>

\* assistant node of Invoke c, chatModel.Generate fails
TwoAssistantErr(c) ==
    /\ runs[c].pc = "assistant"
    /\ runs[c].calls < MaxModelCalls
    /\ LET st == states[stateOf(c)]
       IN runs' = [runs EXCEPT ![c] = [pc |-> "failed",
                                       input |-> AssistantInput(st.order, st.messages),
                                       calls |-> @.calls + 1,
                                       appended |-> @.appended]]
    /\ UNCHANGED <<states, loopVars, cancelVars, routeVars, laterVars>>

\* the branch of Invoke c
TwoBranch(c) ==
    /\ runs[c].pc = "branch"
    /\ runs' = [runs EXCEPT ![c].pc =
                   IF shouldCallTool(states[stateOf(c)].messages) = "tools"
                   THEN "tools" ELSE "done"]
    /\ UNCHANGED <<states, loopVars, cancelVars, routeVars, laterVars>>

\* tools node of Invoke c, then the edge tools -> assistant
TwoToolExecutor(c) ==
    /\ runs[c].pc = "tools"
    /\ LET calls == Last(states[stateOf(c)].messages).toolCalls
       IN \E outcomes \in [1..Len(calls) -> HandlerOutcomes] :
             LET r == IF Len(calls) = 0 THEN Out(<<>>, <<>>, "next")
                      ELSE RunToolCalls("NewAgent", calls, outcomes)
             IN /\ states' = [states EXCEPT ![stateOf(c)].messages = @ \o r.msgs]
                /\ runs' = [runs EXCEPT ![c].pc = "assistant",
                                        ![c].appended = @ \o r.msgs]
    /\ UNCHANGED <<loopVars, cancelVars, routeVars, laterVars>>

TwoNext ==
    \E c \in Conversations :
        \/ TwoAssistantOk(c)
        \/ TwoAssistantErr(c)
        \/ TwoBranch(c)
        \/ TwoToolExecutor(c)

SpecTwo == TwoInit /\ [][TwoNext]_vars

IsPrefix(s, t) == Len(s) <= Len(t) /\ SubSeq(t, 1, Len(s)) = s

(* C14: two conversations run on the same compiled agent, each with its    *)
(* own state object, never see each other's messages under any             *)
(* interleaving of their steps: the log of a conversation is what its      *)
(* caller supplied followed by what its own rounds appended, its context   *)
(* is its caller's, and the input of each of its model calls is its own    *)
(* system prompt followed by messages of its own log.                      *)
C14_ConversationsIsolated ==
    \A c \in Conversations :
        /\ states[c].order = CallerState(c).order
        /\ states[c].messages = CallerState(c).messages \o runs[c].appended
        /\ runs[c].input # <<>> =>
              /\ runs[c].input[1] = SystemMessage(CallerState(c).order)
              /\ IsPrefix(Tail(runs[c].input), states[c].messages)

\* both conversations are in the middle of a run, each after a tool pass of
\* its own
C14_Witness ==
    /\ runs[1].pc = "assistant"
    /\ runs[2].pc = "tools"
    /\ \E k \in 1..Len(states[1].messages) : states[1].messages[k].role = "tool"
    /\ \E k \in 1..Len(states[2].messages) : states[2].messages[k].role = "tool"

-----------------------------------------------------------------------------
(* C15: a caller never gets a half-updated conversation: when a run of the *)
(* NewAgent graph fails, the state object the caller handed to Invoke      *)
(* holds exactly the messages it held before the run.  (The nodes work on  *)
(* the caller's *AgentState itself, so `messages` is that object's field.) *)
C15_FailedRunLeavesStateUntouched ==
    (variant = "NewAgent" /\ pc = "failed") => messages = InitialMessages(variant)

-----------------------------------------------------------------------------
(* Cancellation.  The caller of NewAgent's graph passes a ctx it may       *)
(* cancel at any moment.  No node reads ctx.Done() or ctx.Err(): ctx is    *)
(* only handed on to chatModel.Generate and to the handlers.  Between two  *)
(* nodes the graph runtime is given the benefit of the doubt: it stops a   *)
(* run whose ctx is cancelled before it enters the next node.  Inside the  *)
(* tools node the loop over the invocations goes on whatever ctx says.     *)

CancelInit ==
    /\ variant = "NewAgent"
    /\ order \in Orders
    /\ messages = InitialMessages(variant)
    /\ pc = "assistant"
    /\ inputMsgs = <<>>
    /\ modelCalls = 0
    /\ handlerRuns = <<>>
    /\ finalResp = NoResp
    /\ err = "none"
    /\ cancelled = FALSE
    /\ lateStarts = <<>>
    /\ TwoIdle
    /\ RouteIdle
    /\ LaterIdle

\* the caller cancels ctx while the run is between two nodes
Cancel ==
    /\ ~cancelled
    /\ pc \in {"assistant", "branch", "tools"}
    /\ cancelled' = TRUE
    /\ UNCHANGED <<loopVars, lateStarts, twoVars, routeVars, laterVars>>

\* the graph runtime finds ctx cancelled before the next node: Invoke
\* returns the context error
RuntimeCancel ==
    /\ cancelled
    /\ pc \in {"assistant", "branch", "tools"}
    /\ pc' = "failed"
    /\ err' = "cancelled"
    /\ UNCHANGED <<variant, order, messages, inputMsgs, modelCalls, handlerRuns, finalResp>>
    /\ UNCHANGED outsideLoop

CancelAssistantOk == ~cancelled /\ AssistantOk

CancelAssistantErr == ~cancelled /\ AssistantErr

CancelBranch == ~cancelled /\ Branch

\* tools node of NewAgent; the caller may cancel ctx during the pass, after
\* `done` iterations of the loop (at least one, so that the pass has begun;
\* all of them when ctx is not cancelled): the remaining iterations run all
\* the same
CancellableToolExecutor ==
    /\ ~cancelled
    /\ variant = "NewAgent"
    /\ pc = "tools"
    /\ LET calls == Last(messages).toolCalls
       IN \E outcomes \in [1..Len(calls) -> HandlerOutcomes], done \in 1..Len(calls) :
             LET r == RunToolCalls(variant, calls, outcomes)
                 before == RunToolCalls(variant, SubSeq(calls, 1, done), outcomes)
             IN /\ messages' = messages \o r.msgs
                /\ handlerRuns' = handlerRuns \o r.runs
                /\ cancelled' = (done < Len(calls))
                /\ lateStarts' = lateStarts \o
                                   SubSeq(r.runs, Len(before.runs) + 1, Len(r.runs))
    /\ pc' = "assistant"
    /\ UNCHANGED <<variant, order, inputMsgs, modelCalls, finalResp, err>>
    /\ UNCHANGED <<twoVars, routeVars, laterVars>>

CancelNext ==
    \/ Cancel
    \/ RuntimeCancel
    \/ CancelAssistantOk
    \/ CancelAssistantErr
    \/ CancelBranch
    \/ CancellableToolExecutor

SpecCancel == CancelInit /\ [][CancelNext]_vars

(* C16: once the caller's cancellation signal is set, no further model     *)
(* call or tool handler is started, and a run that stops after it was set  *)
(* ends in FAILED with a Cancelled reason and with the Tool messages       *)
(* already appended still in the log.                                      *)
C16_NothingStartsAfterCancellation ==
    /\ lateStarts = <<>>
    /\ (cancelled /\ pc \in {"failed", "done"}) =>
          /\ pc = "failed"
          /\ err = "cancelled"
          /\ \A r \in 1..Len(handlerRuns) : Answered(handlerRuns[r].id)

-----------------------------------------------------------------------------
\* one step of any of the loops, seen from the log
LogOnlyGrows == IsPrefix(messages, messages')

(* C17: the log is append-only: no step of the loop (model call, tool      *)
(* pass, branch) removes, reorders or rewrites a message already in the    *)
(* log; the log before a step is a prefix of the log after it.             *)
C17_LogIsAppendOnly == [][LogOnlyGrows]_vars

\* a graph run of three model calls and two tool passes that appended
\* Tool messages
C17_Witness ==
    /\ variant = "NewAgent"
    /\ pc = "done"
    /\ modelCalls = 3
    /\ Len(messages) >= 6

\* one step of a graph, seen from the scenario context
ContextUntouched == variant \in GraphVariants => order' = order

(* C18: the scenario context threaded with the log (order, incident,       *)
(* patient, account ...) is left unchanged by every pass of the tools node *)
(* and by every other step of a run: it is only read, to build the system  *)
(* prompt.                                                                 *)
C18_ContextIsOnlyRead == [][ContextUntouched]_vars

\* a finished graph run in which handlers were executed
C18_Witness ==
    /\ variant = "NewAgent"
    /\ pc = "done"
    /\ order \in Orders
    /\ handlerRuns # <<>>
    /\ inputMsgs[1] = SystemMessage(order)

\* one step of a graph that makes a model call
ModelInputIsPromptThenLog ==
    (variant \in GraphVariants /\ modelCalls' = modelCalls + 1) =>
        /\ pc = "assistant"
        /\ handlerRuns' = handlerRuns
        /\ inputMsgs' # <<>>
        /\ inputMsgs'[1] = SystemMessage(order)
        /\ Tail(inputMsgs') = messages
        /\ Cardinality({ k \in 1..Len(inputMsgs') : inputMsgs'[k].role = "system" }) = 1
        /\ \A k \in 1..Len(messages) :
              messages[k].role = "tool" => inputMsgs'[k + 1] = messages[k]

-----------------------------------------------------------------------------
(* routeQuery of the MCP tools example.  A query is a sequence of words;   *)
(* strings.Contains(queryLower, t) holds when t is a substring of some     *)
(* word of the lowered query.                                              *)

MaxQueryLen == 3   \* words in a query

MathTokens == {"+", "-", "*", "/", "(", ")"}

Words == {"Weather", "weather", "WEATHER", "joke", "well-known", "3", "5"} \cup MathTokens

Queries == UNION { [1..n -> Words] : n \in 0..MaxQueryLen }

\* strings.ToLower, word by word
ToLower(w) == IF w \in {"Weather", "WEATHER"} THEN "weather" ELSE w

\* the substrings of a word that routeQuery can look for
Parts(w) == IF w = "well-known" THEN {w, "-"} ELSE {w}

\* strings.Contains on a lowered query
Contains(lowered, t) == \E i \in 1..Len(lowered) : t \in Parts(lowered[i])

\* routeQuery checking the weather keyword before the math tokens
routeQuery_WeatherFirst(q) ==
    LET queryLower == [i \in 1..Len(q) |-> ToLower(q[i])]
    IN IF Contains(queryLower, "weather") THEN "get_weather"
       ELSE IF \E token \in MathTokens : Contains(queryLower, token) THEN "calculate"
       ELSE "unknown"

routeQuery(q) ==
    LET queryLower == [i \in 1..Len(q) |-> ToLower(q[i])]
    IN IF \E token \in MathTokens : Contains(queryLower, token) THEN "calculate"
       ELSE IF Contains(queryLower, "weather") THEN "get_weather"
       ELSE "unknown"

RouteInit ==
    /\ query \in Queries
    /\ routed = "none"
    /\ LoopIdle
    /\ TwoIdle
    /\ CancelIdle
    /\ LaterIdle

\* testRouting: result := routeQuery(tc.query)
RouteQuery ==
    /\ routed = "none"
    /\ routed' = routeQuery(query)
    /\ UNCHANGED <<query, loopVars, twoVars, cancelVars, laterVars>>

RouteNext == RouteQuery

SpecRoute == RouteInit /\ [][RouteNext]_vars

\* the query contains the word "weather" in some letter case
HasWeather(q) == \E i \in 1..Len(q) : q[i] \in {"Weather", "weather", "WEATHER"}

\* the query holds one of the characters + - * / ( )
HasMathToken(q) == \E i \in 1..Len(q) : Parts(q[i]) \cap MathTokens # {}

\* the query is an arithmetic expression: numbers, operators and
\* parentheses only, with at least one operator or parenthesis
IsArithmetic(q) ==
    /\ \E i \in 1..Len(q) : q[i] \in MathTokens
    /\ \A i \in 1..Len(q) : q[i] \in MathTokens \cup {"3", "5"}

(* C20 as stated: routeQuery sends every query that contains the word      *)
(* "weather" (any letter case) to get_weather, every query that is an      *)
(* arithmetic expression to calculate, and every other query to unknown.   *)
C20_WeatherWordGoesToGetWeather ==
    routed # "none" =>
        /\ HasWeather(query) => routed = "get_weather"
        /\ IsArithmetic(query) => routed = "calculate"
        /\ (~HasWeather(query) /\ ~IsArithmetic(query)) => routed = "unknown"

(* C20: routeQuery looks for the math tokens first: every query that       *)
(* contains one of the characters + - * / ( ) anywhere goes to calculate   *)
(* (every arithmetic expression among them); of the others, every query    *)
(* that contains the word "weather" (any letter case) goes to get_weather; *)
(* every remaining query goes to unknown.                                  *)
C20_MathTokensComeFirst ==
    routed # "none" =>
        /\ HasMathToken(query) => routed = "calculate"
        /\ IsArithmetic(query) => routed = "calculate"
        /\ (~HasMathToken(query) /\ HasWeather(query)) => routed = "get_weather"
        /\ (~HasMathToken(query) /\ ~HasWeather(query)) => routed = "unknown"

\* a routed query that holds both the word "weather" and a math token
C20_Witness ==
    /\ routed = "calculate"
    /\ HasWeather(query)
    /\ HasMathToken(query)
    /\ ~IsArithmetic(query)

-----------------------------------------------------------------------------
(* The context-window demo: two stateless calls of a one-node graph, then  *)
(* two turns of one thread whose history is kept in memoryStore.           *)

threadID == "1"

\* the user messages of the demo: "hi! I'm bob", then "what's my name?"
Question(n) == UserMessage(<<IF n = 1 THEN "hi! I'm bob" ELSE "what's my name?">>)

\* what llm.Generate may return on success
LlmResponses == { AssistantMessage(<<c>>, <<>>) : c \in {"reply a", "reply b", "reply c"} }

\* loadState that never finds a saved history
loadState_Empty(store, id) == <<>>

loadState(store, id) == IF id \in DOMAIN store THEN store[id] ELSE <<>>

saveState(store, id, msgs) ==
    [t \in DOMAIN store \cup {id} |-> IF t = id THEN msgs ELSE store[t]]

\* callModel on a state whose llm.Generate call returns resp: the input of
\* the call and the messages of the state it returns
callModel(msgs, resp) == [input |-> msgs, messages |-> Append(msgs, resp)]

MemInit ==
    /\ memPc = "stateless1"
    /\ memoryStore = <<>>
    /\ llmInput = <<>>
    /\ printed = <<>>
    /\ turns = <<>>
    /\ MemAlone

\* graph.Invoke on input1 / input2, then printLastMessage
StatelessCall ==
    /\ memPc \in {"stateless1", "stateless2"}
    /\ LET n == IF memPc = "stateless1" THEN 1 ELSE 2
       IN \E resp \in LlmResponses :
             LET out == callModel(<<Question(n)>>, resp)
             IN /\ llmInput' = out.input
                /\ printed' = Append(printed, Last(out.messages))
    /\ memPc' = IF memPc = "stateless1" THEN "stateless2" ELSE "stateful1"
    /\ UNCHANGED <<memoryStore, turns>>
    /\ UNCHANGED outsideMem

\* one turn of the thread: loadState, append the user message, graph.Invoke,
\* saveState, printLastMessage
StatefulTurn ==
    /\ memPc \in {"stateful1", "stateful2"}
    /\ LET n == IF memPc = "stateful1" THEN 1 ELSE 2
           currentMsgs == Append(loadState(memoryStore, threadID), Question(n))
       IN \E resp \in LlmResponses :
             LET out == callModel(currentMsgs, resp)
             IN /\ llmInput' = out.input
                /\ memoryStore' = saveState(memoryStore, threadID, out.messages)
                /\ printed' = Append(printed, Last(out.messages))
                /\ turns' = Append(turns, <<Question(n), resp>>)
    /\ memPc' = IF memPc = "stateful1" THEN "stateful2" ELSE "done"
    /\ UNCHANGED outsideMem

\* llm.Generate fails: callModel returns the error, main ends in log.Fatalf
\* before anything is saved or printed
LlmCallErr ==
    /\ memPc \in {"stateless1", "stateless2", "stateful1", "stateful2"}
    /\ llmInput' = IF memPc \in {"stateless1", "stateless2"}
                   THEN <<Question(IF memPc = "stateless1" THEN 1 ELSE 2)>>
                   ELSE Append(loadState(memoryStore, threadID),
                               Question(IF memPc = "stateful1" THEN 1 ELSE 2))
    /\ memPc' = "failed"
    /\ UNCHANGED <<memoryStore, printed, turns>>
    /\ UNCHANGED outsideMem

MemNext ==
    \/ StatelessCall
    \/ StatefulTurn
    \/ LlmCallErr

SpecMem == MemInit /\ [][MemNext]_vars

\* the messages of a sequence of turns, in order
RECURSIVE Flatten(_)
Flatten(ts) == IF ts = <<>> THEN <<>> ELSE Head(ts) \o Flatten(Tail(ts))

(* C21: after each turn of the thread is saved, the history stored for the *)
(* thread id holds all messages of all its turns so far in order (user,    *)
(* assistant, user, assistant, ...), and the model input of turn n was     *)
(* every message of turns 1..n-1 followed by the user message of turn n;   *)
(* in the stateless runs the model input of a call holds only that call's  *)
(* user message.                                                           *)
C21_ThreadHistoryIsAllTurns ==
    /\ memPc \in {"stateless2", "stateful1"} =>
          /\ Len(llmInput) = 1
          /\ llmInput[1] = Question(IF memPc = "stateless2" THEN 1 ELSE 2)
          /\ DOMAIN memoryStore = {}
    /\ memPc \in {"stateful2", "done"} =>
          LET n == Len(turns)
          IN /\ n = (IF memPc = "stateful2" THEN 1 ELSE 2)
             /\ DOMAIN memoryStore = {threadID}
             /\ memoryStore[threadID] = Flatten(turns)
             /\ \A k \in 1..(2 * n) :
                   memoryStore[threadID][k].role =
                       (IF k % 2 = 1 THEN "user" ELSE "assistant")
             /\ llmInput = Flatten(SubSeq(turns, 1, n - 1)) \o <<Question(n)>>

\* both turns of the thread are saved
C21_Witness ==
    /\ memPc = "done"
    /\ Len(memoryStore[threadID]) = 4
    /\ Len(llmInput) = 3

-----------------------------------------------------------------------------
(* The actor-critic loop of the multi-agent example: up to maxIterations   *)
(* rounds of an actor call and a critic call; the plan the critic selects  *)
(* with a score above 8 is executed and the program returns.               *)

maxIterations == 3

MaxPlanTools == 2   \* tools listed by a selected plan

PlanToolNames == {"manage_inventory", "send_logistics_response", "bogus"}

\* CandidatePlan.Tools of a selected plan
PlanTools == UNION { [1..n -> PlanToolNames] : n \in 0..MaxPlanTools }

NoPlan == [tools |-> <<"nil">>]

\* what json.Unmarshal makes of the critic's answer: it fails, or it fills a
\* CriticEvaluation (Selected stays nil when the answer has no "selected")
CriticResults ==
    {[parsed |-> FALSE, bestScore |-> 0, selected |-> NoPlan]} \cup
    { [parsed |-> TRUE, bestScore |-> s, selected |-> p] :
        s \in {7, 8, 9}, p \in {NoPlan} \cup { [tools |-> t] : t \in PlanTools } }

NoEval == [parsed |-> FALSE, bestScore |-> 0, selected |-> NoPlan]

\* the results table of executeTool
executeToolResult(name) ==
    CASE name = "manage_inventory" -> "inventory_management_initiated"
      [] name = "send_logistics_response" -> "logistics_response_sent"
      [] OTHER -> "unknown_tool_result"

\* the acceptance test without the score threshold
Accepts_AnySelected(e) == e.selected # NoPlan

\* evalResult.BestScore > 8 && evalResult.Selected != nil
Accepts(e) == e.bestScore > 8 /\ e.selected # NoPlan

AcInit ==
    /\ acPc = "actor"
    /\ iteration = 0
    /\ evalResult = NoEval
    /\ executed = <<>>
    /\ acCalls = <<>>
    /\ AcAlone

\* the loop test fails: "Max iterations reached"
MaxIterationsReached ==
    /\ acPc = "actor"
    /\ ~(iteration < maxIterations)
    /\ acPc' = "maxed"
    /\ UNCHANGED <<iteration, evalResult, executed, acCalls>>
    /\ UNCHANGED outsideAc

\* actor node: the candidates are parsed, or replaced by one plan holding
\* the raw answer
ActorCall ==
    /\ acPc = "actor"
    /\ iteration < maxIterations
    /\ acCalls' = Append(acCalls, "actor")
    /\ evalResult' = NoEval
    /\ acPc' = "critic"
    /\ UNCHANGED <<iteration, executed>>
    /\ UNCHANGED outsideAc

\* chatModel.Generate of the actor or of the critic fails: log.Fatalf
AcCallErr ==
    /\ \/ acPc = "actor" /\ iteration < maxIterations
       \/ acPc = "critic"
    /\ acCalls' = Append(acCalls, acPc)
    /\ acPc' = "failed"
    /\ UNCHANGED <<iteration, evalResult, executed>>
    /\ UNCHANGED outsideAc

\* critic node and the rest of the iteration: a parse failure continues the
\* loop; an accepted plan is executed and main returns; otherwise the
\* feedback is added to the user message and the loop continues
CriticCall ==
    /\ acPc = "critic"
    /\ acCalls' = Append(acCalls, "critic")
    /\ \E e \in CriticResults :
          /\ evalResult' = e
          /\ IF e.parsed /\ Accepts(e)
             THEN /\ executed' = executed \o
                        [i \in 1..Len(e.selected.tools) |->
                            [tool |-> e.selected.tools[i],
                             result |-> executeToolResult(e.selected.tools[i])]] \o
                        <<[tool |-> "send_logistics_response",
                           result |-> executeToolResult("send_logistics_response")]>>
                  /\ acPc' = "done"
                  /\ UNCHANGED iteration
             ELSE /\ iteration' = iteration + 1
                  /\ acPc' = "actor"
                  /\ UNCHANGED executed
    /\ UNCHANGED outsideAc

AcNext ==
    \/ MaxIterationsReached
    \/ ActorCall
    \/ AcCallErr
    \/ CriticCall

SpecAc == AcInit /\ [][AcNext]_vars

\* the names of the tools executed, in order
ExecutedNames == [i \in 1..Len(executed) |-> executed[i].tool]

(* C22: the actor-critic loop runs at most 3 iterations.  Tools are        *)
(* executed only in an iteration whose critic result parsed with           *)
(* best_score > 8 and a selected plan: then the selected plan's tools run  *)
(* in listed order, followed by exactly one send_logistics_response, and   *)
(* no actor or critic call is made afterwards (the critic call of that     *)
(* iteration is the last model call).  If no iteration accepts a plan, no  *)
(* tool is executed at all.                                                *)
C22_ToolsRunOnlyForAcceptedPlan ==
    /\ iteration <= maxIterations
    /\ Len(acCalls) <= 2 * maxIterations
    /\ executed # <<>> =>
          /\ acPc = "done"
          /\ evalResult.parsed
          /\ evalResult.bestScore > 8
          /\ evalResult.selected # NoPlan
          /\ ExecutedNames = evalResult.selected.tools \o <<"send_logistics_response">>
          /\ Last(acCalls) = "critic"
          /\ Len(acCalls) = 2 * (iteration + 1)
    /\ acPc = "done" => executed # <<>>
    /\ acPc \in {"maxed", "failed", "actor", "critic"} => executed = <<>>
    /\ acPc = "maxed" => iteration = maxIterations /\ Len(acCalls) = 2 * maxIterations

\* a plan of two tools accepted in the third iteration
C22_Witness ==
    /\ acPc = "done"
    /\ iteration = 2
    /\ Len(executed) = 3

-----------------------------------------------------------------------------
(* The prompt-optimisation loop of the multi-agent example: an initial     *)
(* evaluation, then `generations` rounds of generateNewPrompt and          *)
(* runEvaluation; a candidate enters the archive when it beats the last    *)
(* entry.  A fitness totalScore / len(scenarios) is represented by its     *)
(* numerator, in units of 1 / MaxScore.                                    *)

generations == 3

numScenarios == 5   \* generateScenarios(5)

MaxScore == 1       \* evaluatePrediction: the best score of one scenario

RECURSIVE SumSeq(_)
SumSeq(s) == IF s = <<>> THEN 0 ELSE Head(s) + SumSeq(Tail(s))

\* runEvaluation: the scores of the scenarios are added up; a scenario whose
\* model call fails adds nothing
runEvaluation(scores) == SumSeq(scores)

\* the values runEvaluation can return
Fitnesses == { runEvaluation(s) : s \in [1..numScenarios -> 0..MaxScore] }

AgentSnapshot(p, f, g) == [prompt |-> p, fitness |-> f, generation |-> g]

\* generateNewPrompt: the meta-agent's answer, or the best prompt again when
\* its call fails
generateNewPrompt(arch) == {"new prompt", Last(arch).prompt}

\* the archive test letting an equally fit candidate in
Improves_OrEqual(fitness, arch) == fitness >= Last(arch).fitness

\* fitness > archive[len(archive)-1].Fitness
Improves(fitness, arch) == fitness > Last(arch).fitness

PoInit ==
    /\ poPc = "initial"
    /\ gen = 0
    /\ archive = <<>>
    /\ evaluated = <<>>
    /\ best = <<>>
    /\ PoAlone

\* "Evaluating Initial Prompt"
InitialEvaluation ==
    /\ poPc = "initial"
    /\ \E initialFitness \in Fitnesses :
          /\ archive' = Append(archive, AgentSnapshot("initial prompt", initialFitness, 0))
          /\ evaluated' = Append(evaluated, initialFitness)
    /\ gen' = 1
    /\ poPc' = "loop"
    /\ UNCHANGED best
    /\ UNCHANGED outsidePo

\* one generation of the meta-learning loop
Generation ==
    /\ poPc = "loop"
    /\ gen <= generations
    /\ \E newPrompt \in generateNewPrompt(archive), fitness \in Fitnesses :
          /\ archive' = IF Improves(fitness, archive)
                        THEN Append(archive, AgentSnapshot(newPrompt, fitness, gen))
                        ELSE archive
          /\ evaluated' = Append(evaluated, fitness)
    /\ gen' = gen + 1
    /\ UNCHANGED <<poPc, best>>
    /\ UNCHANGED outsidePo

\* "Optimization Complete": best := archive[len(archive)-1]
ReportBest ==
    /\ poPc = "loop"
    /\ ~(gen <= generations)
    /\ best' = Last(archive)
    /\ poPc' = "done"
    /\ UNCHANGED <<gen, archive, evaluated>>
    /\ UNCHANGED outsidePo

PoNext ==
    \/ InitialEvaluation
    \/ Generation
    \/ ReportBest

SpecPo == PoInit /\ [][PoNext]_vars

(* C23: from the initial evaluation on the archive is never empty and its  *)
(* fitness values strictly increase from first to last entry, after any    *)
(* number of generations; the prompt reported as best has a fitness        *)
(* greater than or equal to that of every prompt evaluated in the run; and *)
(* exactly 3 generations are run after the initial evaluation.             *)
C23_ArchiveStrictlyImproves ==
    /\ poPc # "initial" => archive # <<>>
    /\ \A i, j \in 1..Len(archive) : i < j => archive[i].fitness < archive[j].fitness
    /\ \A k \in 1..Len(evaluated) : evaluated[k] <= Last(archive).fitness
    /\ Len(evaluated) <= generations + 1
    /\ poPc = "loop" => Len(evaluated) = gen
    /\ poPc = "done" =>
          /\ Len(evaluated) = 3 + 1
          /\ best = Last(archive)
          /\ \A k \in 1..Len(evaluated) : evaluated[k] <= best.fitness

\* a finished run in which one generation improved and a later one, less
\* fit than the best, was discarded
C23_Witness ==
    /\ poPc = "done"
    /\ Len(archive) = 2
    /\ evaluated[4] < best.fitness
    /\ evaluated[4] > evaluated[1]

-----------------------------------------------------------------------------
(* The InsightAgent: three lists of insight texts and the methods that     *)
(* move texts between them, called in any order with any argument.         *)

MaxGenerated == 3   \* successful GenerateInsight calls

\* the texts the model may return and a caller may pass
InsightTexts == {"insight a", "insight b"}

\* the index of the first element equal to x, 0 when there is none
\* (the search loops of PromoteInsight / DemoteInsight, slices.Index)
IndexOf(s, x) ==
    IF \E i \in 1..Len(s) : s[i] = x
    THEN CHOOSE i \in 1..Len(s) : s[i] = x /\ \A j \in 1..(i - 1) : s[j] # x
    ELSE 0

\* append(s[:i], s[i+1:]...)
RemoveAt(s, i) == SubSeq(s, 1, i - 1) \o SubSeq(s, i + 1, Len(s))

Agent(ins, pro, dem) == [Insights |-> ins, PromotedInsights |-> pro, DemotedInsights |-> dem]

\* PromoteInsight that leaves the insight in Insights as well
PromoteInsight_Copies(a, insight) ==
    IF IndexOf(a.Insights, insight) # 0
    THEN Agent(a.Insights, Append(a.PromotedInsights, insight), a.DemotedInsights)
    ELSE a

PromoteInsight(a, insight) ==
    LET foundIndex == IndexOf(a.Insights, insight)
    IN IF foundIndex # 0
       THEN Agent(RemoveAt(a.Insights, foundIndex),
                  Append(a.PromotedInsights, insight),
                  a.DemotedInsights)
       ELSE a

DemoteInsight(a, insight) ==
    LET foundIndex == IndexOf(a.PromotedInsights, insight)
    IN IF foundIndex # 0
       THEN Agent(a.Insights,
                  RemoveAt(a.PromotedInsights, foundIndex),
                  Append(a.DemotedInsights, insight))
       ELSE a

\* the three lists are searched in turn; the first hit is overwritten
EditInsight(a, oldInsight, newInsight) ==
    IF IndexOf(a.Insights, oldInsight) # 0
    THEN [a EXCEPT !.Insights[IndexOf(a.Insights, oldInsight)] = newInsight]
    ELSE IF IndexOf(a.PromotedInsights, oldInsight) # 0
    THEN [a EXCEPT !.PromotedInsights[IndexOf(a.PromotedInsights, oldInsight)] = newInsight]
    ELSE IF IndexOf(a.DemotedInsights, oldInsight) # 0
    THEN [a EXCEPT !.DemotedInsights[IndexOf(a.DemotedInsights, oldInsight)] = newInsight]
    ELSE a

TheAgent == Agent(Insights, PromotedInsights, DemotedInsights)

\* the fields of the agent become those of a
Becomes(a) ==
    /\ Insights' = a.Insights
    /\ PromotedInsights' = a.PromotedInsights
    /\ DemotedInsights' = a.DemotedInsights

\* NewInsightAgent
InsightInit ==
    /\ Insights = <<>>
    /\ PromotedInsights = <<>>
    /\ DemotedInsights = <<>>
    /\ generated = 0
    /\ lastCall = [op |-> "NewInsightAgent", arg |-> "", new |-> ""]
    /\ InsightAlone

\* GenerateInsight, getCompletion succeeds
GenerateInsightOk ==
    /\ generated < MaxGenerated
    /\ \E insight \in InsightTexts :
          /\ Insights' = Append(Insights, insight)
          /\ lastCall' = [op |-> "GenerateInsight", arg |-> insight, new |-> ""]
    /\ generated' = generated + 1
    /\ UNCHANGED <<PromotedInsights, DemotedInsights>>
    /\ UNCHANGED outsideInsight

\* GenerateInsight, getCompletion fails: return "", err
GenerateInsightErr ==
    /\ lastCall' = [op |-> "GenerateInsight failed", arg |-> "", new |-> ""]
    /\ UNCHANGED <<Insights, PromotedInsights, DemotedInsights, generated>>
    /\ UNCHANGED outsideInsight

PromoteInsightCall ==
    /\ \E insight \in InsightTexts :
          /\ Becomes(PromoteInsight(TheAgent, insight))
          /\ lastCall' = [op |-> "PromoteInsight", arg |-> insight, new |-> ""]
    /\ UNCHANGED generated
    /\ UNCHANGED outsideInsight

DemoteInsightCall ==
    /\ \E insight \in InsightTexts :
          /\ Becomes(DemoteInsight(TheAgent, insight))
          /\ lastCall' = [op |-> "DemoteInsight", arg |-> insight, new |-> ""]
    /\ UNCHANGED generated
    /\ UNCHANGED outsideInsight

EditInsightCall ==
    /\ \E oldInsight, newInsight \in InsightTexts :
          /\ Becomes(EditInsight(TheAgent, oldInsight, newInsight))
          /\ lastCall' = [op |-> "EditInsight", arg |-> oldInsight, new |-> newInsight]
    /\ UNCHANGED generated
    /\ UNCHANGED outsideInsight

InsightNext ==
    \/ GenerateInsightOk
    \/ GenerateInsightErr
    \/ PromoteInsightCall
    \/ DemoteInsightCall
    \/ EditInsightCall

SpecInsight == InsightInit /\ [][InsightNext]_vars

\* x occurs in s
Occurs(s, x) == \E i \in 1..Len(s) : s[i] = x

\* t is s with exactly one entry, equal to x, taken out
OneRemoved(s, t, x) == \E i \in 1..Len(s) : s[i] = x /\ t = RemoveAt(s, i)

\* t is s with exactly one entry, equal to x, overwritten by y
OneReplaced(s, t, x, y) == \E i \in 1..Len(s) : s[i] = x /\ t = [s EXCEPT ![i] = y]

\* one method call, seen from the three lists
InsightStep ==
    /\ Len(Insights') + Len(PromotedInsights') + Len(DemotedInsights') = generated'
    /\ lastCall'.op = "PromoteInsight" =>
          IF Occurs(Insights, lastCall'.arg)
          THEN /\ OneRemoved(Insights, Insights', lastCall'.arg)
               /\ PromotedInsights' = Append(PromotedInsights, lastCall'.arg)
               /\ DemotedInsights' = DemotedInsights
          ELSE UNCHANGED <<Insights, PromotedInsights, DemotedInsights>>
    /\ lastCall'.op = "DemoteInsight" =>
          IF Occurs(PromotedInsights, lastCall'.arg)
          THEN /\ OneRemoved(PromotedInsights, PromotedInsights', lastCall'.arg)
               /\ DemotedInsights' = Append(DemotedInsights, lastCall'.arg)
               /\ Insights' = Insights
          ELSE UNCHANGED <<Insights, PromotedInsights, DemotedInsights>>
    /\ lastCall'.op = "EditInsight" =>
          IF Occurs(Insights \o PromotedInsights \o DemotedInsights, lastCall'.arg)
          THEN /\ OneReplaced(Insights \o PromotedInsights \o DemotedInsights,
                              Insights' \o PromotedInsights' \o DemotedInsights',
                              lastCall'.arg, lastCall'.new)
               /\ Len(Insights') = Len(Insights)
               /\ Len(PromotedInsights') = Len(PromotedInsights)
               /\ Len(DemotedInsights') = Len(DemotedInsights)
          ELSE UNCHANGED <<Insights, PromotedInsights, DemotedInsights>>

(* C24: for any sequence of GenerateInsight, PromoteInsight, DemoteInsight *)
(* and EditInsight calls, the total number of entries over the three lists *)
(* equals the number of successful GenerateInsight calls: PromoteInsight   *)
(* moves one entry from Insights to PromotedInsights, DemoteInsight moves  *)
(* one entry from PromotedInsights to DemotedInsights, EditInsight         *)
(* replaces one entry in place, and each of them leaves all three lists    *)
(* unchanged when the given insight is not in its source list (for         *)
(* EditInsight: in none of the three lists).                               *)
C24_CallsKeepTheEntryCount == [][InsightStep]_vars

\* all three lists hold an entry and the latest call was an edit that hit
C24_Witness ==
    /\ generated = 3
    /\ Len(Insights) = 1
    /\ Len(PromotedInsights) = 1
    /\ Len(DemotedInsights) = 1
    /\ lastCall.op = "EditInsight"
    /\ Occurs(Insights \o PromotedInsights \o DemotedInsights, lastCall.new)

-----------------------------------------------------------------------------
(* The reflexion memory: updateMemory asks the model for one reflection    *)
(* per failed environment and appends it to that environment's Memory.     *)

MaxEnvs == 2      \* environments handed to updateMemory
MaxMemory == 4    \* reflections an environment holds before the call
MaxUpdates == 1   \* updateMemory calls

\* len(env.Memory) > 3, env.Memory[len(env.Memory)-3:]
reflectionWindow == 3

\* what getCompletion returns: a reflection, or an error
Completions == {"plan", "error"}

\* the k earlier reflections of environment e, oldest first
EarlierMemory(e, k) == [j \in 1..k |-> <<"reflection", e, j>>]

EnvConfigsOf(n) ==
    [1..n -> [IsSuccess : BOOLEAN, Skip : BOOLEAN, Len : {0, MaxMemory - 1, MaxMemory}]]

\* the whole Memory is handed to the query
recentReflections_All(memory) == memory

\* the slice of Memory that goes into the query
recentReflections(memory) ==
    IF Len(memory) > reflectionWindow
    THEN SubSeq(memory, Len(memory) - reflectionWindow + 1, Len(memory))
    ELSE memory

\* the query text is the joined history followed by the trial log
generateReflectionQuery(trialLog, recent) == [history |-> recent, trialLog |-> trialLog]

\* the loop of updateMemory from environment i on; replies[i] is what
\* getCompletion returns for environment i
RECURSIVE updateLoop(_, _, _, _)
updateLoop(envs, i, replies, qs) ==
    IF i > Len(envs)
    THEN [envs |-> envs, queries |-> qs, err |-> "nil"]
    ELSE IF ~envs[i].IsSuccess /\ ~envs[i].Skip
    THEN LET q == generateReflectionQuery(i, recentReflections(envs[i].Memory))
         IN IF replies[i] = "error"
            THEN [envs |-> envs, queries |-> Append(qs, q), err |-> "error"]
            ELSE updateLoop([envs EXCEPT ![i].Memory = Append(@, <<replies[i], i, Len(@) + 1>>)],
                            i + 1, replies, Append(qs, q))
    ELSE updateLoop(envs, i + 1, replies, qs)

\* updateMemory: readOk is whether os.ReadFile succeeds, nLogs the number
\* of pieces the log splits into
updateMemory(envs, readOk, nLogs, replies) ==
    IF ~readOk
    THEN [envs |-> envs, queries |-> <<>>, err |-> "error"]
    ELSE IF nLogs # Len(envs)
    THEN [envs |-> envs, queries |-> <<>>, err |-> "error"]
    ELSE updateLoop(envs, 1, replies, <<>>)

ReflInit ==
    /\ \E n \in 1..MaxEnvs : \E cfg \in EnvConfigsOf(n) :
          envConfigs = [e \in 1..n |->
                           [IsSuccess |-> cfg[e].IsSuccess,
                            Skip      |-> cfg[e].Skip,
                            Memory    |-> EarlierMemory(e, cfg[e].Len)]]
    /\ updates = 0
    /\ umErr = "none"
    /\ queries = <<>>
    /\ ReflAlone

UpdateMemory ==
    /\ updates < MaxUpdates
    /\ \E readOk \in BOOLEAN, nLogs \in 1..MaxEnvs,
          replies \in [1..Len(envConfigs) -> Completions] :
          LET r == updateMemory(envConfigs, readOk, nLogs, replies)
          IN /\ envConfigs' = r.envs
             /\ queries' = r.queries
             /\ umErr' = r.err
    /\ updates' = updates + 1
    /\ UNCHANGED outsideRefl

ReflNext == UpdateMemory

SpecRefl == ReflInit /\ [][ReflNext]_vars

\* environment i is one updateMemory reflects on
Failed(i) == ~envConfigs[i].IsSuccess /\ ~envConfigs[i].Skip

\* the last three elements of s, all of s when it is shorter
Tail3(s) == SubSeq(s, IF Len(s) > 3 THEN Len(s) - 2 ELSE 1, Len(s))

\* an updateMemory call that returned nil
SuccessfulUpdate ==
    (updates' = updates + 1 /\ umErr' = "nil") =>
       /\ Len(envConfigs') = Len(envConfigs)
       /\ \A i \in 1..Len(envConfigs) :
             /\ envConfigs'[i].IsSuccess = envConfigs[i].IsSuccess
             /\ envConfigs'[i].Skip = envConfigs[i].Skip
             /\ IF Failed(i)
                THEN /\ Len(envConfigs'[i].Memory) = Len(envConfigs[i].Memory) + 1
                     /\ SubSeq(envConfigs'[i].Memory, 1, Len(envConfigs[i].Memory))
                           = envConfigs[i].Memory
                     /\ \E k \in 1..Len(queries') :
                           /\ queries'[k].trialLog = i
                           /\ queries'[k].history = Tail3(envConfigs[i].Memory)
                           /\ Len(queries'[k].history) <= 3
                ELSE /\ envConfigs'[i].Memory = envConfigs[i].Memory
                     /\ \A k \in 1..Len(queries') : queries'[k].trialLog # i
       /\ Len(queries') = Cardinality({i \in 1..Len(envConfigs) : Failed(i)})

(* C25: a successful updateMemory call appends exactly one reflection to   *)
(* the Memory of every environment that is neither successful nor skipped, *)
(* keeps all its earlier reflections in order, leaves the Memory of        *)
(* successful or skipped environments unchanged, and builds each           *)
(* reflection query from at most the 3 most recent reflections of that     *)
(* environment.                                                            *)
C25_UpdateMemoryAppendsOneReflection == [][SuccessfulUpdate]_vars

\* a call returned nil with a failed environment that held more than three
\* reflections next to a skipped one that held some
C25_Witness ==
    /\ umErr = "nil"
    /\ \E i, j \in 1..Len(envConfigs) :
          /\ Failed(i)
          /\ Len(envConfigs[i].Memory) > 4
          /\ envConfigs[j].Skip
          /\ Len(envConfigs[j].Memory) > 0
    /\ \E k \in 1..Len(queries) : Len(queries[k].history) = 3

-----------------------------------------------------------------------------
(* The support-routing graph: categorize_issue, a first handler chosen by  *)
(* topRouter, an optional second handler chosen by billingRouter or        *)
(* techRouter, and summarize_response.  Texts are sequences of words.      *)

MaxMessageLen == 2   \* words in the user's message

SupportWords == {"Invoices", "login", "refund", "slow"}

UserMessages == UNION { [1..n -> SupportWords] : n \in 0..MaxMessageLen }

Space == {" ", "\n"}

\* what the model answers to the classification prompt
CategoryReplies ==
    { <<"billing">>, <<" ", "Billing", "\n">>, <<"technical">>, <<"billing", " ", "issue">> }

\* what the model answers to the summary prompt
SummaryReplies == { <<"Reply">>, <<"\n", "Reply", " ">> }

\* strings.ToLower
LowerText(s) ==
    [i \in 1..Len(s) |->
        IF s[i] = "Invoices" THEN "invoices"
        ELSE IF s[i] = "Billing" THEN "billing"
        ELSE IF s[i] = "Reply" THEN "reply"
        ELSE s[i]]

\* strings.TrimSpace
TrimSpace(s) ==
    LET inked == {i \in 1..Len(s) : s[i] \notin Space}
    IN IF inked = {} THEN <<>>
       ELSE SubSeq(s, CHOOSE i \in inked : \A j \in inked : i <= j,
                      CHOOSE i \in inked : \A j \in inked : i >= j)

\* strings.Contains(msg, sub) for the substrings the routers look for
ContainsText(msg, sub) ==
    \E i \in 1..Len(msg) : msg[i] = sub \/ (msg[i] = "invoices" /\ sub = "invoice")

topRouter(state) ==
    IF state.IssueType = <<"billing">> THEN "handle_invoice" ELSE "handle_login"

billingRouter(state) ==
    IF ContainsText(LowerText(state.UserMessage), "invoice")
    THEN "summarize_response" ELSE "handle_refund"

\* techRouter sending the run to the billing side
techRouter_Refund(state) ==
    IF ContainsText(LowerText(state.UserMessage), "login")
    THEN "summarize_response" ELSE "handle_refund"

techRouter(state) ==
    IF ContainsText(LowerText(state.UserMessage), "login")
    THEN "summarize_response" ELSE "handle_performance"

\* runnable.Invoke(ctx, initialState): START leads to categorize_issue
SupportInit ==
    /\ supPc = "categorize_issue"
    /\ visited = <<>>
    /\ \E m \in UserMessages :
          supState = [UserMessage |-> m, UserID |-> "U1234", IssueType |-> <<>>,
                      StepResult |-> "", Response |-> <<>>]
    /\ SupportAlone

\* categorizeIssue, the model answers; then topRouter
CategorizeIssueOk ==
    /\ supPc = "categorize_issue"
    /\ \E content \in CategoryReplies :
          supState' = [supState EXCEPT !.IssueType = LowerText(TrimSpace(content))]
    /\ visited' = Append(visited, "categorize_issue")
    /\ supPc' = topRouter(supState')
    /\ UNCHANGED outsideSupport

\* categorizeIssue, llm.Generate fails: return state, err
CategorizeIssueErr ==
    /\ supPc = "categorize_issue"
    /\ visited' = Append(visited, "categorize_issue")
    /\ supPc' = "failed"
    /\ UNCHANGED supState
    /\ UNCHANGED outsideSupport

\* handleInvoice, then billingRouter
HandleInvoice ==
    /\ supPc = "handle_invoice"
    /\ supState' = [supState EXCEPT !.StepResult = "Invoice details for U1234"]
    /\ visited' = Append(visited, "handle_invoice")
    /\ supPc' = billingRouter(supState')
    /\ UNCHANGED outsideSupport

\* handleRefund, then the edge to summarize_response
HandleRefund ==
    /\ supPc = "handle_refund"
    /\ supState' = [supState EXCEPT !.StepResult = "Refund process initiated"]
    /\ visited' = Append(visited, "handle_refund")
    /\ supPc' = "summarize_response"
    /\ UNCHANGED outsideSupport

\* handleLogin, then techRouter
HandleLogin ==
    /\ supPc = "handle_login"
    /\ supState' = [supState EXCEPT !.StepResult = "Password reset link sent"]
    /\ visited' = Append(visited, "handle_login")
    /\ supPc' = techRouter(supState')
    /\ UNCHANGED outsideSupport

\* handlePerformance, then the edge to summarize_response
HandlePerformance ==
    /\ supPc = "handle_performance"
    /\ supState' = [supState EXCEPT !.StepResult = "Performance metrics analyzed"]
    /\ visited' = Append(visited, "handle_performance")
    /\ supPc' = "summarize_response"
    /\ UNCHANGED outsideSupport

\* summarizeResponse, the model answers; then the edge to END
SummarizeResponseOk ==
    /\ supPc = "summarize_response"
    /\ \E content \in SummaryReplies :
          supState' = [supState EXCEPT !.Response = TrimSpace(content)]
    /\ visited' = Append(visited, "summarize_response")
    /\ supPc' = "END"
    /\ UNCHANGED outsideSupport

\* summarizeResponse, llm.Generate fails: return state, err
SummarizeResponseErr ==
    /\ supPc = "summarize_response"
    /\ visited' = Append(visited, "summarize_response")
    /\ supPc' = "failed"
    /\ UNCHANGED supState
    /\ UNCHANGED outsideSupport

SupportNext ==
    \/ CategorizeIssueOk
    \/ CategorizeIssueErr
    \/ HandleInvoice
    \/ HandleRefund
    \/ HandleLogin
    \/ HandlePerformance
    \/ SummarizeResponseOk
    \/ SummarizeResponseErr

\* every node returns once it is entered: its model call, if any, returns
SpecSupport == SupportInit /\ [][SupportNext]_vars /\ WF_vars(SupportNext)

\* the four ways through the graph
SupportPaths ==
    { <<"categorize_issue", "handle_invoice", "summarize_response">>,
      <<"categorize_issue", "handle_invoice", "handle_refund", "summarize_response">>,
      <<"categorize_issue", "handle_login", "summarize_response">>,
      <<"categorize_issue", "handle_login", "handle_performance", "summarize_response">> }

RunOver == supPc \in {"END", "failed"}

\* the nodes run so far are the beginning of one of the four ways, and a
\* run that reached END went the whole way
OnAPath ==
    /\ \E p \in SupportPaths : Len(visited) <= Len(p) /\ visited = SubSeq(p, 1, Len(visited))
    /\ \A i, j \in 1..Len(visited) : visited[i] = visited[j] => i = j
    /\ supPc = "END" => visited \in SupportPaths
    /\ supPc = "failed" =>
          visited \in SupportPaths \cup { <<"categorize_issue">> }

(* C26 as written: every run that is over went one of the four ways        *)
(* through the graph, summarize_response included.                         *)
C26_EveryRunSummarizes == RunOver => visited \in SupportPaths

(* C26: every run of the support-routing graph visits categorize_issue     *)
(* first and, unless the classification call fails and ends the run there, *)
(* then exactly one of handle_invoice or handle_login, then at most one    *)
(* more handler (handle_refund only after handle_invoice,                  *)
(* handle_performance only after handle_login), then summarize_response    *)
(* exactly once, then ends; no node is visited twice, and the run is over  *)
(* once the model calls have returned.                                     *)
C26_RunFollowsOnePathAndEnds == []OnAPath /\ <>RunOver

\* a run that took the longer technical way and reached END
C26_Witness ==
    /\ supPc = "END"
    /\ visited = <<"categorize_issue", "handle_login", "handle_performance", "summarize_response">>

-----------------------------------------------------------------------------
(* The A2A server: agentHandler serves the agent card, JSON-RPC calls on   *)
(* /api, and 404 for everything else.                                      *)

MaxRequests == 1    \* HTTP requests served
MaxIdOffset == 3    \* numeric ids run up to 2^53 + MaxIdOffset

\* RPCError.Code of "Method not found"
MethodNotFound == -32601

\* An id as it stands in the JSON text.  A number is 2^53 + off when big
\* is set and off otherwise.
NumberIds == [kind : {"number"}, text : {""}, big : BOOLEAN, off : -1..MaxIdOffset]

RequestIds ==
    NumberIds \cup
    [kind : {"string"}, text : {"req-1"}, big : {FALSE}, off : {0}] \cup
    [kind : {"null", "absent"}, text : {""}, big : {FALSE}, off : {0}]

\* bodies that are JSON objects; params holds strings only when paramsOk
JsonBodies ==
    [jsonrpc : {"2.0", "1.0", ""}, method : {"summarizeText", "translate"},
     paramsOk : BOOLEAN, id : RequestIds]

NotJson == [jsonrpc |-> "", method |-> "", paramsOk |-> FALSE,
            id |-> [kind |-> "absent", text |-> "", big |-> FALSE, off |-> 0]]

HttpRequests ==
    [method : {"GET", "POST"}, path : {"/api", "/.well-known/agent.json", "/tasks"},
     json : BOOLEAN, body : JsonBodies]

\* the float64 nearest to an integer: every integer up to 2^53 is a float64,
\* above it only the even ones are, and a tie goes to the even mantissa
Float64Of(n) ==
    IF n.big /\ n.off > 0 /\ n.off % 2 = 1
    THEN IF (n.off - 1) % 4 = 0 THEN [n EXCEPT !.off = n.off - 1]
                                ELSE [n EXCEPT !.off = n.off + 1]
    ELSE n

\* json.Unmarshal into ID interface{}: a number becomes a float64, a string
\* a string, null and a missing member nil
decodeID(id) ==
    IF id.kind = "number" THEN Float64Of(id)
    ELSE IF id.kind = "string" THEN id
    ELSE [id EXCEPT !.kind = "nil"]

\* json.Encoder on ID interface{}: nil is written as null
encodeID(v) == IF v.kind = "nil" THEN [v EXCEPT !.kind = "null"] ELSE v

\* json.Unmarshal(body, &req): err is set when the body is no JSON object
\* or params holds something other than strings
Unmarshal_RPCRequest(r) ==
    IF ~r.json \/ ~r.body.paramsOk
    THEN [err |-> TRUE, req |-> NotJson]
    ELSE [err |-> FALSE,
          req |-> [r.body EXCEPT !.id = decodeID(r.body.id)]]

\* simpleSummarize: the model's summary, or the text of the error
Summaries == {"summary", "Error generating summary"}

NoBody == [jsonrpc |-> "", result |-> "", error |-> 0,
           id |-> [kind |-> "absent", text |-> "", big |-> FALSE, off |-> 0]]

\* the JSON text of an RPCResponse: result and error are omitempty
Encode(status, jsonrpc, result, error, id) ==
    [status |-> status, kind |-> "rpc",
     members |-> {"jsonrpc", "id"} \cup (IF result # "" THEN {"result"} ELSE {})
                                   \cup (IF error # 0 THEN {"error"} ELSE {}),
     body |-> [jsonrpc |-> jsonrpc, result |-> result, error |-> error, id |-> encodeID(id)]]

Plain(status, kind) == [status |-> status, kind |-> kind, members |-> {}, body |-> NoBody]

handleRPC(r, summary) ==
    LET u == Unmarshal_RPCRequest(r)
    IN IF u.err
       THEN <<Plain(400, "Invalid Request")>>
       ELSE IF u.req.jsonrpc = "2.0" /\ u.req.method = "summarizeText"
       THEN <<Encode(200, "2.0", summary, 0, u.req.id)>>
       ELSE <<Encode(200, "2.0", "", MethodNotFound, u.req.id)>>

agentHandler(r, summary) ==
    IF r.method = "GET" /\ r.path = "/.well-known/agent.json"
    THEN <<Plain(200, "agentCard")>>
    ELSE IF r.method = "POST" /\ r.path = "/api"
    THEN handleRPC(r, summary)
    ELSE <<Plain(404, "404 page not found")>>

\* http.ListenAndServe: nothing served yet
A2aInit ==
    /\ a2aReq = <<>>
    /\ a2aOut = <<>>
    /\ a2aServed = 0
    /\ A2aAlone

\* one request arrives and agentHandler serves it
Serve ==
    /\ a2aServed < MaxRequests
    /\ \E r \in HttpRequests, summary \in Summaries :
          /\ r.json \/ r.body = CHOOSE b \in JsonBodies : TRUE
          /\ a2aReq' = r
          /\ a2aOut' = agentHandler(r, summary)
    /\ a2aServed' = a2aServed + 1
    /\ UNCHANGED outsideA2a

A2aNext == Serve

SpecA2a == A2aInit /\ [][A2aNext]_vars

\* the request served is a POST to /api whose body parses as a request
ParsedRpc ==
    /\ a2aServed > 0
    /\ a2aReq.method = "POST"
    /\ a2aReq.path = "/api"
    /\ a2aReq.json
    /\ a2aReq.body.paramsOk

\* one response, with a result or an error and never both, the result
\* exactly for summarizeText over JSON-RPC 2.0
ResponseShape ==
    ParsedRpc =>
       /\ Len(a2aOut) = 1
       /\ a2aOut[1].kind = "rpc"
       /\ ("result" \in a2aOut[1].members) # ("error" \in a2aOut[1].members)
       /\ "result" \in a2aOut[1].members <=>
             (a2aReq.body.jsonrpc = "2.0" /\ a2aReq.body.method = "summarizeText")
       /\ "error" \in a2aOut[1].members => a2aOut[1].body.error = MethodNotFound

\* the id of the response is the id of the request
IdEchoed ==
    (ParsedRpc /\ a2aReq.body.id.kind # "absent") =>
       a2aOut[1].body.id = a2aReq.body.id

(* C27: for every POST to /api whose body parses as a request, the server  *)
(* sends exactly one JSON-RPC response that echoes the request's id and    *)
(* holds either a result or an error, never both: a result when jsonrpc is *)
(* "2.0" and the method is summarizeText, and otherwise the error code     *)
(* -32601.                                                                 *)
C27_OneResponseEchoingTheId == ResponseShape /\ IdEchoed

-----------------------------------------------------------------------------
(* The voice relay: handleVoice starts one goroutine that forwards the     *)
(* browser's audio to OpenAI and one that forwards OpenAI's audio to the   *)
(* browser and truncates the assistant's item when the user starts to      *)
(* speak.  A write on a connection takes two steps, so that two writes can *)
(* be seen to overlap.                                                     *)

MaxEvents == 3   \* messages read from openaiWS
MaxAudio == 2    \* messages read from clientWS

ItemIDs == {"", "item_1", "item_2"}

\* what openaiWS.ReadMessage and the two json.Unmarshal calls can yield
OpenAIEvents ==
    [type : {"response.audio.delta"}, item : ItemIDs] \cup
    [type : {"input_audio_buffer.speech_started", "response.done", "not json"}, item : {""}]

NoMsg == [type |-> "", item |-> ""]

\* handleVoice after the session is initialised and both goroutines started
VoiceInit ==
    /\ c2oPc = "read"
    /\ o2cPc = "read"
    /\ lastAssistantItem = ""
    /\ mu = ""
    /\ itemID = ""
    /\ o2cMsg = NoMsg
    /\ o2cLog = <<>>
    /\ writers = {}
    /\ evCount = 0
    /\ audCount = 0
    /\ VoiceAlone

c2oFrame == <<o2cPc, lastAssistantItem, mu, itemID, o2cMsg, o2cLog, evCount>>

o2cFrame == <<c2oPc, audCount>>

\* client -> OpenAI: clientWS.ReadMessage and json.Unmarshal
C2oRead ==
    /\ c2oPc = "read"
    /\ audCount < MaxAudio
    /\ audCount' = audCount + 1
    /\ \E got \in {"audio", "not json", "error"} :
          c2oPc' = CASE got = "audio"    -> "append"
                     [] got = "not json" -> "read"
                     [] got = "error"    -> "done"
    /\ UNCHANGED <<writers, c2oFrame, outsideVoice>>

\* client -> OpenAI: openaiWS.WriteJSON(append) starts
C2oAppendBegin ==
    /\ c2oPc = "append"
    /\ writers' = writers \cup {"c2o"}
    /\ c2oPc' = "appending"
    /\ UNCHANGED <<audCount, c2oFrame, outsideVoice>>

\* client -> OpenAI: openaiWS.WriteJSON(append) returns
C2oAppendEnd ==
    /\ c2oPc = "appending"
    /\ writers' = writers \ {"c2o"}
    /\ \E ok \in BOOLEAN : c2oPc' = IF ok THEN "read" ELSE "done"
    /\ UNCHANGED <<audCount, c2oFrame, outsideVoice>>

\* OpenAI -> client: openaiWS.ReadMessage, json.Unmarshal, switch
O2cRead ==
    /\ o2cPc = "read"
    /\ evCount < MaxEvents
    /\ evCount' = evCount + 1
    /\ \/ /\ o2cPc' = "done"
          /\ o2cMsg' = NoMsg
       \/ \E msg \in OpenAIEvents :
            /\ o2cMsg' = msg
            /\ o2cPc' = CASE msg.type = "response.audio.delta" -> "forward"
                          [] msg.type = "input_audio_buffer.speech_started" -> "lockRead"
                          [] OTHER -> "read"
    /\ UNCHANGED <<lastAssistantItem, mu, itemID, o2cLog, writers, o2cFrame, outsideVoice>>

\* OpenAI -> client: clientWS.WriteJSON(resp)
O2cForward ==
    /\ o2cPc = "forward"
    /\ \/ /\ o2cLog' = Append(o2cLog, [sent |-> "audio", item |-> o2cMsg.item])
          /\ o2cPc' = "lockSet"
       \/ /\ o2cPc' = "done"
          /\ UNCHANGED o2cLog
    /\ UNCHANGED <<lastAssistantItem, mu, itemID, o2cMsg, writers, evCount, o2cFrame, outsideVoice>>

\* OpenAI -> client: mu.Lock()
O2cLock ==
    /\ o2cPc \in {"lockSet", "lockRead", "lockClear"}
    /\ mu = ""
    /\ mu' = "o2c"
    /\ o2cPc' = CASE o2cPc = "lockSet"   -> "set"
                  [] o2cPc = "lockRead"  -> "readItem"
                  [] o2cPc = "lockClear" -> "clear"
    /\ UNCHANGED <<lastAssistantItem, itemID, o2cMsg, o2cLog, writers, evCount, o2cFrame, outsideVoice>>

\* OpenAI -> client: lastAssistantItem = delta.ItemID; mu.Unlock()
O2cSet ==
    /\ o2cPc = "set"
    /\ lastAssistantItem' = o2cMsg.item
    /\ mu' = ""
    /\ o2cPc' = "read"
    /\ UNCHANGED <<itemID, o2cMsg, o2cLog, writers, evCount, o2cFrame, outsideVoice>>

\* OpenAI -> client: itemID := lastAssistantItem; mu.Unlock(); if itemID != ""
O2cReadItem ==
    /\ o2cPc = "readItem"
    /\ itemID' = lastAssistantItem
    /\ mu' = ""
    /\ o2cPc' = IF itemID' # "" THEN "truncate" ELSE "read"
    /\ UNCHANGED <<lastAssistantItem, o2cMsg, o2cLog, writers, evCount, o2cFrame, outsideVoice>>

\* OpenAI -> client: openaiWS.WriteJSON(truncate) starts
O2cTruncateBegin ==
    /\ o2cPc = "truncate"
    /\ writers' = writers \cup {"o2c"}
    /\ o2cPc' = "truncating"
    /\ UNCHANGED <<lastAssistantItem, mu, itemID, o2cMsg, o2cLog, evCount, o2cFrame, outsideVoice>>

\* OpenAI -> client: openaiWS.WriteJSON(truncate) returns, its error dropped
O2cTruncateEnd ==
    /\ o2cPc = "truncating"
    /\ writers' = writers \ {"o2c"}
    /\ o2cLog' = Append(o2cLog, [sent |-> "truncate", item |-> itemID])
    /\ o2cPc' = "lockClear"
    /\ UNCHANGED <<lastAssistantItem, mu, itemID, o2cMsg, evCount, o2cFrame, outsideVoice>>

\* the clearing step that leaves lastAssistantItem as it is
O2cClear_Keeps ==
    /\ o2cPc = "clear"
    /\ mu' = ""
    /\ o2cPc' = "read"
    /\ UNCHANGED <<lastAssistantItem, itemID, o2cMsg, o2cLog, writers, evCount, o2cFrame, outsideVoice>>

\* OpenAI -> client: lastAssistantItem = ""; mu.Unlock()
O2cClear ==
    /\ o2cPc = "clear"
    /\ lastAssistantItem' = ""
    /\ mu' = ""
    /\ o2cPc' = "read"
    /\ UNCHANGED <<itemID, o2cMsg, o2cLog, writers, evCount, o2cFrame, outsideVoice>>

VoiceNext ==
    \/ C2oRead
    \/ C2oAppendBegin
    \/ C2oAppendEnd
    \/ O2cRead
    \/ O2cForward
    \/ O2cLock
    \/ O2cSet
    \/ O2cReadItem
    \/ O2cTruncateBegin
    \/ O2cTruncateEnd
    \/ O2cClear

SpecVoice == VoiceInit /\ [][VoiceNext]_vars

\* the positions of the truncates in the log
Truncates == {k \in 1..Len(o2cLog) : o2cLog[k].sent = "truncate"}

\* the position of the latest audio delta before position k, 0 if none
LastAudioBefore(k) ==
    IF \E j \in 1..(k - 1) : o2cLog[j].sent = "audio"
    THEN CHOOSE j \in 1..(k - 1) :
            /\ o2cLog[j].sent = "audio"
            /\ \A i \in (j + 1)..(k - 1) : o2cLog[i].sent # "audio"
    ELSE 0

\* what has been sent so far, and where the goroutine stands
TruncateDiscipline ==
    /\ o2cPc \in {"truncate", "truncating"} =>
          o2cMsg.type = "input_audio_buffer.speech_started"
    /\ \A k \in Truncates :
          /\ k > 1
          /\ o2cLog[k - 1].sent = "audio"
          /\ o2cLog[k].item = o2cLog[k - 1].item
          /\ o2cLog[k].item # ""
    /\ (o2cLog # <<>> /\ o2cLog[Len(o2cLog)].sent = "truncate" /\ o2cPc \in {"read", "done"})
          => lastAssistantItem = ""
    /\ o2cPc \in {"set", "readItem", "clear"} => mu = "o2c"

\* one step of the relay
VoiceStep ==
    /\ TruncateDiscipline'
    /\ (lastAssistantItem' # lastAssistantItem \/ itemID' # itemID) => mu = "o2c"
    /\ Len(o2cLog') > Len(o2cLog) /\ o2cLog'[Len(o2cLog')].sent = "truncate" =>
          o2cMsg.type = "input_audio_buffer.speech_started"

(* C28: a conversation.item.truncate message is sent to OpenAI only on a   *)
(* speech_started event and only if at least one audio delta was forwarded *)
(* to the browser since the last truncate; it names the item id of the     *)
(* most recent delta, and lastAssistantItem is cleared afterwards, so at   *)
(* most one truncate is sent between two audio deltas.  Every read and     *)
(* write of lastAssistantItem happens while holding the mutex.             *)
C28_TruncateOncePerDelta == [][VoiceStep]_vars

\* a truncate went out for the latest delta and lastAssistantItem was
\* cleared, then a second speech_started found nothing to truncate
C28_Witness ==
    /\ Len(o2cLog) = 2
    /\ o2cLog[2] = [sent |-> "truncate", item |-> "item_2"]
    /\ lastAssistantItem = ""
    /\ evCount = 3
    /\ o2cMsg.type = "input_audio_buffer.speech_started"
    /\ o2cPc = "read"

(* C29: the two goroutines never write to the OpenAI WebSocket connection  *)
(* at the same time: the write of an input_audio_buffer.append and the     *)
(* write of a conversation.item.truncate are mutually exclusive under      *)
(* every interleaving.                                                     *)
C29_WritesToOpenAIExclusive == Cardinality(writers) <= 1

====
